---- MODULE Spec2Model ----
(***************************************************************************)
(* A model of anonymize_slide.py: the TIFF/BigTIFF/NDPI reader and its     *)
(* in-place directory delete, the MRXS index/datafile/Slidedat.ini editor  *)
(* and the format dispatcher.  Files are sequences of bytes; the code's    *)
(* struct formats are decoded and encoded byte by byte.                    *)
(***************************************************************************)
EXTENDS Integers, Sequences, FiniteSets, TLC

(***************************************************************************)
(* Bounds of the model.                                                    *)
(***************************************************************************)
\* Longest IFD chain of a generated TIFF file.
MaxDirs == 3
\* Bytes of one image strip of a generated TIFF file.
StripLen == 4
\* The most levels layer 0 of a slide has.
MaxLevels == 3
\* The segments of SegSize bytes below the largest base near_pointer is
\* called with.
MaxSegments == 3
\* The file names on the command line.
MaxFiles == 3

(***************************************************************************)
(* Program constants.                                                      *)
(***************************************************************************)
BYTE == 1
ASCII == 2
SHORT == 3
LONG == 4
FLOAT == 11
DOUBLE == 12
LONG8 == 16

IMAGE_DESCRIPTION == 270
STRIP_OFFSETS == 273
STRIP_BYTE_COUNTS == 279
NDPI_MAGIC == 65420
NDPI_SOURCELENS == 65421
XMLPACKET == 700

LZW_CLEARCODE == <<128>>
JPEG_SOI == <<255, 216>>

(***************************************************************************)
(* Sequences of bytes and files.                                           *)
(***************************************************************************)
Min(a, b) == IF a < b THEN a ELSE b
Max(a, b) == IF a > b THEN a ELSE b

Reverse(s) == [i \in 1..Len(s) |-> s[Len(s) + 1 - i]]

\* b'\0' * n (a negative n gives the empty string)
Zeros(n) == [i \in 1..Max(n, 0) |-> 0]

\* file.seek(pos); file.read(n): at most n bytes, fewer at the end of file.
FileRead(f, pos, n) ==
    IF pos >= Len(f) \/ n <= 0 THEN <<>>
    ELSE SubSeq(f, pos + 1, Min(pos + n, Len(f)))

\* file.seek(pos); file.write(bs): overwrites in place; a write past the end
\* of the file grows it, the gap reading as zeros.
FileWrite(f, pos, bs) ==
    IF bs = <<>> THEN f
    ELSE [i \in 1..Max(Len(f), pos + Len(bs)) |->
            IF i > pos /\ i <= pos + Len(bs) THEN bs[i - pos]
            ELSE IF i <= Len(f) THEN f[i] ELSE 0]

(***************************************************************************)
(* struct: every number at or above Huge lies beyond every file of the     *)
(* model and is decoded as Huge.                                           *)
(***************************************************************************)
Huge == 256 * 256 * 256

\* The unsigned value of a little-endian byte string.
UIntLE(le) ==
    IF \E i \in 4..Len(le) : le[i] # 0 THEN Huge
    ELSE (IF Len(le) >= 1 THEN le[1] ELSE 0)
       + (IF Len(le) >= 2 THEN 256 * le[2] ELSE 0)
       + (IF Len(le) >= 3 THEN 65536 * le[3] ELSE 0)

\* The signed (two's complement) value of a little-endian byte string.
SIntLE(le) ==
    LET n == Len(le)
        neg == le[n] >= 128
        flip == [i \in 1..n |-> 255 - le[i]]
    IN  IF neg THEN 0 - (UIntLE(flip) + 1) ELSE UIntLE(le)

\* struct.calcsize of one format character (standard sizes, no alignment).
ItemSize(c) ==
    CASE c \in {"b", "c", "s"} -> 1
      [] c \in {"h", "H"} -> 2
      [] c \in {"i", "I", "f"} -> 4
      [] c \in {"q", "Q", "d"} -> 8

\* struct.unpack of one item from its bytes, in file order.  The float -1.0
\* (BF 80 00 00) is the number -1; every other float is kept as its bit
\* pattern, which is never -1.
UnpackItem(c, bs, prefix) ==
    LET le == IF prefix = "<" THEN bs ELSE Reverse(bs)
    IN  CASE c \in {"b", "h", "i", "q"} -> SIntLE(le)
          [] c \in {"c", "s"} -> bs[1]
          [] c = "f" /\ le = <<0, 0, 128, 191>> -> 0 - 1
          [] OTHER -> UIntLE(le)

\* struct.pack of one unsigned item below Huge into n bytes.
PackItem(v, n, prefix) ==
    LET le == [i \in 1..n |->
                 CASE i = 1 -> v % 256
                   [] i = 2 -> (v \div 256) % 256
                   [] i = 3 -> (v \div 65536) % 256
                   [] OTHER -> 0]
    IN  IF prefix = "<" THEN le ELSE Reverse(le)

(***************************************************************************)
(* TiffFile: the byte formatter.  A TiffFile's dialect is the record       *)
(* [fmt_prefix, bigtiff, ndpi].                                            *)
(***************************************************************************)
\* TiffFile._convert_format: the dialect's translation of y Y z Z D.
convert_format(fh, fmt) ==
    [i \in 1..Len(fmt) |->
        LET c == fmt[i]
        IN  IF fh.bigtiff
            THEN CASE c \in {"y", "z"} -> "q"
                   [] c \in {"Y", "Z", "D"} -> "Q"
                   [] OTHER -> c
            ELSE IF fh.ndpi
            THEN CASE c = "y" -> "h"
                   [] c = "Y" -> "H"
                   [] c = "z" -> "i"
                   [] c = "Z" -> "I"
                   [] c = "D" -> "Q"
                   [] OTHER -> c
            ELSE CASE c = "y" -> "h"
                   [] c = "Y" -> "H"
                   [] c = "z" -> "i"
                   [] c \in {"Z", "D"} -> "I"
                   [] OTHER -> c]

RECURSIVE CalcSize(_)
CalcSize(cfmt) ==
    IF cfmt = <<>> THEN 0 ELSE ItemSize(Head(cfmt)) + CalcSize(Tail(cfmt))

\* TiffFile.fmt_size
fmt_size(fh, fmt) == CalcSize(convert_format(fh, fmt))

RECURSIVE UnpackAll(_, _, _)
UnpackAll(cfmt, bs, prefix) ==
    IF cfmt = <<>> THEN <<>>
    ELSE <<UnpackItem(Head(cfmt), SubSeq(bs, 1, ItemSize(Head(cfmt))), prefix)>>
         \o UnpackAll(Tail(cfmt),
                      SubSeq(bs, ItemSize(Head(cfmt)) + 1, Len(bs)), prefix)

\* struct.unpack(fmt, bs) of the bytes read at pos: a short read makes it
\* fail.
Unpack(cfmt, prefix, pos, bs) ==
    IF Len(bs) # CalcSize(cfmt)
    THEN [ok |-> FALSE, vals |-> <<>>, next |-> pos + Len(bs)]
    ELSE [ok |-> TRUE, vals |-> UnpackAll(cfmt, bs, prefix),
          next |-> pos + Len(bs)]

\* read_fmt once the format is converted.
ReadConverted(cfmt, prefix, f, pos) ==
    Unpack(cfmt, prefix, pos, FileRead(f, pos, CalcSize(cfmt)))

\* TiffFile.read_fmt at file position pos, the values as a list.
read_fmt(fh, f, pos, fmt) ==
    ReadConverted(convert_format(fh, fmt), fh.fmt_prefix, f, pos)

\* TiffFile.write_fmt of one unsigned value at file position pos.
write_fmt(fh, f, pos, fmt, v) ==
    FileWrite(f, pos, PackItem(v, fmt_size(fh, fmt), fh.fmt_prefix))

\* The bound of near_pointer's segment: 1 << 32 in the source.  The files of
\* the model are shorter than one segment, as every file below 4 GiB is.
SegSize == Huge

\* A near_pointer that rounds up to the segment above base.
near_pointer_SegmentAbove(fh, base, offset) ==
    IF fh.ndpi /\ offset < base
    THEN offset + ((base - offset) \div SegSize + 1) * SegSize
    ELSE offset

\* TiffFile.near_pointer
near_pointer(fh, base, offset) ==
    IF fh.ndpi /\ offset < base
    THEN offset + ((base - offset) \div SegSize) * SegSize
    ELSE offset

(***************************************************************************)
(* TiffEntry, TiffDirectory and TiffFile.__init__: the reader.  An         *)
(* operator named ...Of takes the result of the read before it.            *)
(***************************************************************************)
\* TiffEntry.__init__: the entry made of the values r read at pos.
TiffEntryOf(pos, r) ==
    IF ~r.ok THEN [ok |-> FALSE, next |-> r.next]
    ELSE [ok |-> TRUE, next |-> r.next,
          entry |-> [start |-> pos, tag |-> r.vals[1], type |-> r.vals[2],
                     count |-> r.vals[3], value_offset |-> r.vals[4]]]

\* TiffEntry.__init__: one entry read at file position pos.
TiffEntry(fh, f, pos) ==
    TiffEntryOf(pos, read_fmt(fh, f, pos, <<"H", "H", "Z", "Z">>))

\* The loop of TiffDirectory.__init__ over the entries: e is the entry just
\* read, count the entries still to read with it.
RECURSIVE ReadEntriesOf(_, _, _, _, _)
ReadEntriesOf(fh, f, count, acc, e) ==
    IF ~e.ok THEN [ok |-> FALSE, entries |-> acc, next |-> e.next]
    ELSE IF count = 1
    THEN [ok |-> TRUE, entries |-> Append(acc, e.entry), next |-> e.next]
    ELSE ReadEntriesOf(fh, f, count - 1, Append(acc, e.entry),
                       TiffEntry(fh, f, e.next))

ReadEntries(fh, f, pos, count) ==
    IF count = 0 THEN [ok |-> TRUE, entries |-> <<>>, next |-> pos]
    ELSE ReadEntriesOf(fh, f, count, <<>>, TiffEntry(fh, f, pos))

\* TiffDirectory.__init__: the directory made of the entries es.  entries is
\* the list of the entries in file order; the dict of the source keeps the
\* last of a tag.
TiffDirectoryOf(number, in_pointer_offset, es) ==
    IF ~es.ok THEN [ok |-> FALSE]
    ELSE [ok |-> TRUE,
          dir |-> [entries |-> es.entries,
                   in_pointer_offset |-> in_pointer_offset,
                   out_pointer_offset |-> es.next,
                   number |-> number]]

TiffDirectoryCount(fh, f, number, in_pointer_offset, c) ==
    IF ~c.ok THEN [ok |-> FALSE]
    ELSE TiffDirectoryOf(number, in_pointer_offset,
                         ReadEntries(fh, f, c.next, c.vals[1]))

\* TiffDirectory.__init__ at file position pos.
TiffDirectory(fh, f, pos, number, in_pointer_offset) ==
    TiffDirectoryCount(fh, f, number, in_pointer_offset,
                       read_fmt(fh, f, pos, <<"Y">>))

\* tag in directory.entries
HasTag(d, tag) == \E i \in 1..Len(d.entries) : d.entries[i].tag = tag

\* directory.entries[tag]
EntryOf(d, tag) ==
    d.entries[CHOOSE j \in 1..Len(d.entries) :
                 /\ d.entries[j].tag = tag
                 /\ \A k \in (j + 1)..Len(d.entries) : d.entries[k].tag # tag]

\* The longest chain the reader follows in the model; the source follows a
\* looping chain without end.
MaxChain == 2 * MaxDirs + 2

\* A check for NDPI that is made one directory late, on the first directory
\* once the second has been read.
NdpiCheck_AfterNextDirectory(fh, dirs, d) ==
    IF Len(dirs) = 1 /\ ~fh.bigtiff /\ HasTag(dirs[1], NDPI_MAGIC)
    THEN [fh EXCEPT !.ndpi = TRUE] ELSE fh

\* The check for NDPI of TiffFile.__init__ after directory d was read.
NdpiCheck(fh, dirs, d) ==
    IF dirs = <<>> /\ ~fh.bigtiff /\ HasTag(d, NDPI_MAGIC)
    THEN [fh EXCEPT !.ndpi = TRUE] ELSE fh

\* The directory loop of TiffFile.__init__: p is the pointer read at pos, d
\* the directory read at that pointer.
RECURSIVE ReadDirectoriesOf(_, _, _, _, _)
RECURSIVE ReadDirectoryOf(_, _, _, _)
ReadDirectoryOf(fh, f, dirs, d) ==
    IF ~d.ok THEN [err |-> "struct.error", tf |-> fh, directories |-> dirs]
    ELSE ReadDirectoriesOf(NdpiCheck(fh, dirs, d.dir), f,
                           d.dir.out_pointer_offset, Append(dirs, d.dir),
                           read_fmt(NdpiCheck(fh, dirs, d.dir), f,
                                    d.dir.out_pointer_offset, <<"D">>))

ReadDirectoriesOf(fh, f, pos, dirs, p) ==
    IF ~p.ok THEN [err |-> "struct.error", tf |-> fh, directories |-> dirs]
    ELSE IF p.vals[1] = 0
    THEN [err |-> IF dirs = <<>> THEN "No directories" ELSE "",
          tf |-> fh, directories |-> dirs]
    ELSE IF Len(dirs) >= MaxChain
    THEN [err |-> "loop", tf |-> fh, directories |-> dirs]
    ELSE ReadDirectoryOf(fh, f, dirs,
                         TiffDirectory(fh, f, p.vals[1], Len(dirs), pos))

ReadDirectories(fh, f, pos) ==
    ReadDirectoriesOf(fh, f, pos, <<>>, read_fmt(fh, f, pos, <<"D">>))

TiffFail(fh, e) == [err |-> e, tf |-> fh, directories |-> <<>>]

\* The BigTIFF branch of TiffFile.__init__: m is (magic2, reserved).
TiffFileBig(fh, f, m) ==
    IF ~m.ok THEN TiffFail(fh, "struct.error")
    ELSE IF m.vals[1] # 8 \/ m.vals[2] # 0 THEN TiffFail(fh, "UnrecognizedFile")
    ELSE ReadDirectories(fh, f, 8)

\* The version check of TiffFile.__init__.
TiffFileVersion(fh, f, version) ==
    IF ~version.ok THEN TiffFail(fh, "struct.error")
    ELSE IF version.vals[1] = 42 THEN ReadDirectories(fh, f, 4)
    ELSE IF version.vals[1] = 43
    THEN TiffFileBig([fh EXCEPT !.bigtiff = TRUE], f,
                     read_fmt([fh EXCEPT !.bigtiff = TRUE], f, 4, <<"H", "H">>))
    ELSE TiffFail(fh, "UnrecognizedFile")

\* The header check of TiffFile.__init__.
TiffFileEndian(f, fh) ==
    IF fh.fmt_prefix = "" THEN TiffFail(fh, "UnrecognizedFile")
    ELSE TiffFileVersion(fh, f, read_fmt(fh, f, 2, <<"H">>))

\* TiffFile.__init__ on the bytes f: err is "" and the dialect tf and the
\* directories are set, or err names the exception.
TiffFile(f) ==
    TiffFileEndian(f, [fmt_prefix |-> IF FileRead(f, 0, 2) = <<73, 73>> THEN "<"
                                      ELSE IF FileRead(f, 0, 2) = <<77, 77>>
                                      THEN ">" ELSE "",
                       bigtiff |-> FALSE, ndpi |-> FALSE])

(***************************************************************************)
(* TiffEntry.value and TiffDirectory.delete.                               *)
(***************************************************************************)
\* TiffEntry.format_type; "" stands for ValueError('Unsupported type').
format_type(type) ==
    CASE type = BYTE -> "b"
      [] type = ASCII -> "c"
      [] type = SHORT -> "H"
      [] type = LONG -> "I"
      [] type = LONG8 -> "Q"
      [] type = FLOAT -> "f"
      [] type = DOUBLE -> "d"
      [] OTHER -> ""

\* The items of a value: count items of format item in the bytes bs.
Items(item, count, bs, prefix) ==
    [i \in 1..count |->
        UnpackItem(item,
                   SubSeq(bs, (i - 1) * ItemSize(item) + 1, i * ItemSize(item)),
                   prefix)]

\* The end of TiffEntry.value: the bytes bs were read at loc.
ValueOf(fh, e, item, loc, bs) ==
    IF Len(bs) # e.count * ItemSize(item)
    THEN [err |-> "struct.error", items |-> <<>>, loc |-> loc]
    ELSE IF e.type # ASCII
    THEN [err |-> "", items |-> Items(item, e.count, bs, fh.fmt_prefix),
          loc |-> loc]
    ELSE IF e.count = 0
    THEN [err |-> "IndexError", items |-> <<>>, loc |-> loc]
    ELSE IF bs[e.count] # 0
    THEN [err |-> "ValueError", items |-> <<>>, loc |-> loc]
    ELSE [err |-> "", items |-> SubSeq(bs, 1, e.count - 1), loc |-> loc]

\* The place TiffEntry.value reads from: inline or out of line.
ValueLoc(fh, e, item) ==
    IF e.count * ItemSize(item) <= fmt_size(fh, <<"Z">>)
    THEN e.start + fmt_size(fh, <<"H", "H", "Z">>)
    ELSE near_pointer(fh, e.start, e.value_offset)

ValueAt(fh, f, e, item, loc) ==
    ValueOf(fh, e, item, loc, FileRead(f, loc, e.count * ItemSize(item)))

ValueItem(fh, f, e, item) ==
    IF item = "" THEN [err |-> "ValueError", items |-> <<>>, loc |-> 0]
    ELSE ValueAt(fh, f, e, item, ValueLoc(fh, e, item))

\* TiffEntry.value: the items, with the file position they were read from.
value(fh, f, e) == ValueItem(fh, f, e, format_type(e.type))

\* The loop of TiffDirectory.delete over zip(offsets, lengths), from pair i.
RECURSIVE WipeStrips(_, _, _, _, _, _, _)
RECURSIVE WipeStrip(_, _, _, _, _, _, _, _)
\* A delete that zeroes a strip before it checks the strip's prefix.
WipeStrip_ZeroBeforeCheck(fh, f, base, offsets, lengths, i, prefix, offset) ==
    \* prefix is expected_prefix
    IF /\ prefix # <<>>
       /\ FileRead(f, offset, Len(prefix)) # prefix
    THEN [err |-> "Unexpected data in image strip",
          file |-> FileWrite(f, offset, Zeros(lengths[i]))]
    ELSE WipeStrips(fh, FileWrite(f, offset, Zeros(lengths[i])),
                    base, offsets, lengths, i + 1, prefix)

\* One turn of the loop over the strips in TiffDirectory.delete: the prefix
\* check, then the zeroing of strip i.
WipeStrip(fh, f, base, offsets, lengths, i, expected_prefix, offset) ==
    IF /\ expected_prefix # <<>>
       /\ FileRead(f, offset, Len(expected_prefix)) # expected_prefix
    THEN [err |-> "Unexpected data in image strip", file |-> f]
    ELSE WipeStrips(fh, FileWrite(f, offset, Zeros(lengths[i])),
                    base, offsets, lengths, i + 1, expected_prefix)

WipeStrips(fh, f, base, offsets, lengths, i, expected_prefix) ==
    IF i > Min(Len(offsets), Len(lengths)) THEN [err |-> "", file |-> f]
    ELSE WipeStrip(fh, f, base, offsets, lengths, i, expected_prefix,
                   near_pointer(fh, base, offsets[i]))

\* The end of TiffDirectory.delete: the pointer p read at out_pointer_offset
\* is written at in_pointer_offset.
SpliceOf(fh, f, d, p) ==
    IF ~p.ok THEN [err |-> "struct.error", file |-> f]
    ELSE [err |-> "",
          file |-> write_fmt(fh, f, d.in_pointer_offset, <<"D">>, p.vals[1])]

Splice(fh, d, w) ==
    IF w.err # "" THEN w
    ELSE SpliceOf(fh, w.file, d,
                  read_fmt(fh, w.file, d.out_pointer_offset, <<"D">>))

\* TiffDirectory.delete once the strip offsets and lengths are read.
DeleteStrips(fh, f, d, expected_prefix, offsets, lengths) ==
    IF offsets.err # "" THEN [err |-> offsets.err, file |-> f]
    ELSE IF lengths.err # "" THEN [err |-> lengths.err, file |-> f]
    ELSE Splice(fh, d,
                WipeStrips(fh, f, d.out_pointer_offset, offsets.items,
                           lengths.items, 1, expected_prefix))

\* TiffDirectory.delete(expected_prefix) on directory d of the open file fh;
\* expected_prefix <<>> stands for None.
TiffDirectory_delete(fh, f, d, expected_prefix) ==
    IF ~HasTag(d, STRIP_OFFSETS) \/ ~HasTag(d, STRIP_BYTE_COUNTS)
    THEN [err |-> "Directory is not stripped", file |-> f]
    ELSE DeleteStrips(fh, f, d, expected_prefix,
                      value(fh, f, EntryOf(d, STRIP_OFFSETS)),
                      value(fh, f, EntryOf(d, STRIP_BYTE_COUNTS)))

\* struct.pack('%ds' % count, bs): bs cut to count bytes or padded with NULs.
PackString(count, bs) == [i \in 1..count |-> IF i <= Len(bs) THEN bs[i] ELSE 0]

\* b" " * n (a negative n gives the empty string)
Spaces(n) == [i \in 1..Max(n, 0) |-> 32]

\* The ASCII branch of overwrite_entry: null_pad is len(old_value) -
\* len(byte_string), the write is at value_offset.
OverwriteAscii(f, e, null_pad, byte_string) ==
    [err |-> "",
     file |-> FileWrite(f, e.value_offset,
                        PackString(e.count, byte_string \o Spaces(null_pad)))]

\* The BYTE branch of overwrite_entry: struct.pack('%db' % count, *new_value)
\* takes count numbers from -128 to 127.
OverwriteByte(f, e, new_value) ==
    IF \/ Len(new_value) # e.count
       \/ \E i \in 1..Len(new_value) : new_value[i] > 127
    THEN [err |-> "struct.error", file |-> f]
    ELSE [err |-> "", file |-> FileWrite(f, e.value_offset, new_value)]

\* overwrite_entry once self.value() has returned old: chr(x) of each of its
\* items, then the write by type.
OverwriteOf(f, e, byte_string, old) ==
    IF old.err # "" THEN [err |-> old.err, file |-> f]
    ELSE IF e.type \in {FLOAT, DOUBLE} /\ e.count > 0
    THEN [err |-> "TypeError", file |-> f]
    ELSE IF \E i \in 1..Len(old.items) :
               old.items[i] < 0 \/ old.items[i] >= 1114112
    THEN [err |-> "ValueError", file |-> f]
    ELSE IF e.type = ASCII
    THEN OverwriteAscii(f, e, Len(old.items) - Len(byte_string), byte_string)
    ELSE IF e.type = BYTE
    THEN OverwriteByte(f, e, byte_string
                             \o Zeros(Len(old.items) - Len(byte_string)))
    ELSE [err |-> "ValueError", file |-> f]

\* TiffEntry.overwrite_entry(byte_string) on entry e of the open file fh:
\* [err, file].
overwrite_entry(fh, f, e, byte_string) ==
    OverwriteOf(f, e, byte_string, value(fh, f, e))

(***************************************************************************)
(* The TIFF files the model starts from: the inverse of the reader.  Each  *)
(* directory carries STRIP_OFFSETS and STRIP_BYTE_COUNTS (LONG, one item a *)
(* strip) and, in an NDPI file, NDPI_MAGIC.  A strip of kind "J" begins    *)
(* with JPEG_SOI, one of kind "L" with LZW_CLEARCODE.                      *)
(***************************************************************************)
RECURSIVE Concat(_)
Concat(ss) == IF ss = <<>> THEN <<>> ELSE Head(ss) \o Concat(Tail(ss))

StripBytes(kind, i, j) ==
    [k \in 1..StripLen |->
        CASE k = 1 -> IF kind = "J" THEN 255 ELSE 128
          [] k = 2 -> IF kind = "J" THEN 216 ELSE 7
          [] OTHER -> 16 * (i + 1) + j]

\* The sizes of the parts of a generated file.  endian "<" or ">"; kind
\* "classic", "bigtiff" or "ndpi"; n directories, each with the strips of
\* pattern; phys "fwd" lays the directories out in chain order and "rev" in
\* the opposite order; dataFirst puts a directory's strips before its IFD.
TiffSizes(endian, kind, n, pattern, phys, dataFirst) ==
    [endian |-> endian, kind |-> kind, n |-> n, pattern |-> pattern,
     phys |-> phys, dataFirst |-> dataFirst,
     szY |-> IF kind = "bigtiff" THEN 8 ELSE 2,
     szZ |-> IF kind = "bigtiff" THEN 8 ELSE 4,
     szD |-> IF kind = "classic" THEN 4 ELSE 8,
     hdrLen |-> IF kind = "bigtiff" THEN 16 ELSE 8,
     ns |-> Len(pattern),
     ne |-> IF kind = "ndpi" THEN 3 ELSE 2,
     inline |-> 4 * Len(pattern) <= (IF kind = "bigtiff" THEN 8 ELSE 4)]

\* Where the parts lie.
TiffLayout(s) ==
    [oolLen |-> IF s.inline THEN 0 ELSE 4 * s.ns,
     ifdLen |-> s.szY + s.ne * (4 + 2 * s.szZ) + s.szD,
     dataLen |-> (IF s.inline THEN 0 ELSE 8 * s.ns) + s.ns * StripLen]

BlockAt(s, l, i) ==
    s.hdrLen + (l.ifdLen + l.dataLen)
               * (IF s.phys = "fwd" THEN i ELSE s.n - 1 - i)
IfdAt(s, l, i) == BlockAt(s, l, i) + (IF s.dataFirst THEN l.dataLen ELSE 0)
DataAt(s, l, i) == BlockAt(s, l, i) + (IF s.dataFirst THEN 0 ELSE l.ifdLen)
StripAt(s, l, i, j) == DataAt(s, l, i) + 2 * l.oolLen + (j - 1) * StripLen

Longs(vs, endian) == Concat([j \in 1..Len(vs) |-> PackItem(vs[j], 4, endian)])

\* One entry: an inline value left-justified in the value field.
EntryBytes(s, tag, type, count, inlineBytes, offset) ==
    PackItem(tag, 2, s.endian) \o PackItem(type, 2, s.endian)
    \o PackItem(count, s.szZ, s.endian)
    \o (IF inlineBytes # <<>>
        THEN inlineBytes \o Zeros(s.szZ - Len(inlineBytes))
        ELSE PackItem(offset, s.szZ, s.endian))

IfdBytes(s, l, i, offs, lens) ==
    PackItem(s.ne, s.szY, s.endian)
    \o EntryBytes(s, STRIP_OFFSETS, LONG, s.ns,
                  IF s.inline THEN offs ELSE <<>>, DataAt(s, l, i))
    \o EntryBytes(s, STRIP_BYTE_COUNTS, LONG, s.ns,
                  IF s.inline THEN lens ELSE <<>>, DataAt(s, l, i) + l.oolLen)
    \o (IF s.kind = "ndpi"
        THEN EntryBytes(s, NDPI_MAGIC, LONG, 1, Longs(<<1>>, s.endian), 0)
        ELSE <<>>)
    \o PackItem(IF i = s.n - 1 THEN 0 ELSE IfdAt(s, l, i + 1), s.szD, s.endian)

DataBytes(s, i, offs, lens) ==
    (IF s.inline THEN <<>> ELSE offs \o lens)
    \o Concat([j \in 1..s.ns |-> StripBytes(s.pattern[j], i, j)])

BlockBytes(s, i, ifd, data) == IF s.dataFirst THEN data \o ifd ELSE ifd \o data

Block(s, l, i, offs, lens) ==
    BlockBytes(s, i, IfdBytes(s, l, i, offs, lens), DataBytes(s, i, offs, lens))

HeaderBytes(s, l) ==
    (IF s.endian = "<" THEN <<73, 73>> ELSE <<77, 77>>)
    \o PackItem(IF s.kind = "bigtiff" THEN 43 ELSE 42, 2, s.endian)
    \o (IF s.kind = "bigtiff"
        THEN PackItem(8, 2, s.endian) \o PackItem(0, 2, s.endian) ELSE <<>>)
    \o PackItem(IfdAt(s, l, 0), s.hdrLen - (IF s.kind = "bigtiff" THEN 8 ELSE 4),
                s.endian)

TiffBytes(s, l) ==
    HeaderBytes(s, l)
    \o Concat([p \in 1..s.n |->
                 Block(s, l, IF s.phys = "fwd" THEN p - 1 ELSE s.n - p,
                       Longs([j \in 1..s.ns |->
                                StripAt(s, l, IF s.phys = "fwd" THEN p - 1
                                              ELSE s.n - p, j)], s.endian),
                       Longs([j \in 1..s.ns |-> StripLen], s.endian))])

TiffOfSizes(s) == TiffBytes(s, TiffLayout(s))

TiffImage(endian, kind, n, pattern, phys, dataFirst) ==
    TiffOfSizes(TiffSizes(endian, kind, n, pattern, phys, dataFirst))

StripPatterns == {<<"J">>, <<"J", "J">>, <<"J", "L">>, <<"L", "J">>}

(***************************************************************************)
(* Slidedat.ini.  A key is the sequence of the tokens its name has between *)
(* underscores: NONHIER_0_VAL_1_SECTION is <<"NONHIER", "0", "VAL", "1",   *)
(* "SECTION">>.  A parser (RawConfigParser) is the record [err, sections]: *)
(* err is the exception an operation raised, sections the sequence of      *)
(* [name, items] in file order, items the sequence of [key, value].        *)
(***************************************************************************)
MRXS_HIERARCHICAL == "HIERARCHICAL"

Digits == <<"0", "1", "2", "3", "4", "5", "6", "7", "8", "9">>

\* '%d' % n, for the numbers of one digit.
Dec(n) == Digits[n + 1]

\* int(s): the number the decimal string s denotes, -1 where int() raises.
ParseInt(s) ==
    IF \E n \in 0..9 : Digits[n + 1] = s
    THEN CHOOSE n \in 0..9 : Digits[n + 1] = s
    ELSE -1

\* k == prefix or k.startswith(prefix + '_')
KeyHasPrefix(k, prefix) ==
    /\ Len(k) >= Len(prefix)
    /\ SubSeq(k, 1, Len(prefix)) = prefix

\* k.replace(old, new, 1) for a key k that begins with old.
KeyReplace(k, old, new) == new \o SubSeq(k, Len(old) + 1, Len(k))

has_section(dat, section) ==
    \E i \in 1..Len(dat.sections) : dat.sections[i].name = section

SectionIndex(dat, section) ==
    CHOOSE i \in 1..Len(dat.sections) : dat.sections[i].name = section

\* RawConfigParser.items(section)
items(dat, section) ==
    IF has_section(dat, section)
    THEN dat.sections[SectionIndex(dat, section)].items
    ELSE <<>>

has_option(dat, section, key) ==
    \E i \in 1..Len(items(dat, section)) : items(dat, section)[i].key = key

OptionIndex(its, key) == CHOOSE i \in 1..Len(its) : its[i].key = key

\* RawConfigParser.get(section, key), "" where it raises NoOptionError or
\* NoSectionError (callers test has_option first).
get(dat, section, key) ==
    IF has_option(dat, section, key)
    THEN items(dat, section)[OptionIndex(items(dat, section), key)].value
    ELSE ""

\* RawConfigParser.getint(section, key), -1 where it raises.
getint(dat, section, key) == ParseInt(get(dat, section, key))

Fail(dat, e) == [dat EXCEPT !.err = IF dat.err = "" THEN e ELSE dat.err]

WithItems(dat, i, its) == [dat EXCEPT !.sections[i].items = its]

\* RawConfigParser.remove_option(section, key)
remove_option(dat, section, key) ==
    IF dat.err # "" THEN dat
    ELSE IF ~has_section(dat, section) THEN Fail(dat, "NoSectionError")
    ELSE WithItems(dat, SectionIndex(dat, section),
                   SelectSeq(items(dat, section), LAMBDA it : it.key # key))

SetItem(its, key, v) ==
    IF \E i \in 1..Len(its) : its[i].key = key
    THEN [its EXCEPT ![OptionIndex(its, key)].value = v]
    ELSE Append(its, [key |-> key, value |-> v])

\* RawConfigParser.set(section, key, v): a key the section has keeps
\* its place, a new key goes last.
set(dat, section, key, v) ==
    IF dat.err # "" THEN dat
    ELSE IF ~has_section(dat, section) THEN Fail(dat, "NoSectionError")
    ELSE WithItems(dat, SectionIndex(dat, section),
                   SetItem(items(dat, section), key, v))

\* RawConfigParser.add_section(section)
add_section(dat, section) ==
    IF dat.err # "" THEN dat
    ELSE IF has_section(dat, section) THEN Fail(dat, "DuplicateSectionError")
    ELSE [dat EXCEPT !.sections =
             Append(dat.sections, [name |-> section, items |-> <<>>])]

\* RawConfigParser.remove_section(section)
remove_section(dat, section) ==
    IF dat.err # "" THEN dat
    ELSE [dat EXCEPT !.sections =
             SelectSeq(dat.sections, LAMBDA sec : sec.name # section)]

(***************************************************************************)
(* MrxsNonHierLevel and MrxsFile._make_levels.                             *)
(***************************************************************************)
LayerKey(layer_id, what) == <<"NONHIER", Dec(layer_id), what>>

\* 'NONHIER_%d_VAL_%d' % (layer_id, level_id)
KeyPrefix(layer_id, level_id) ==
    <<"NONHIER", Dec(layer_id), "VAL", Dec(level_id)>>

\* MrxsNonHierLevel.__init__ raises NoOptionError unless dat has the keys.
LevelOk(dat, layer_id, level_id) ==
    /\ has_option(dat, MRXS_HIERARCHICAL, LayerKey(layer_id, "NAME"))
    /\ has_option(dat, MRXS_HIERARCHICAL, KeyPrefix(layer_id, level_id))
    /\ has_option(dat, MRXS_HIERARCHICAL,
                  KeyPrefix(layer_id, level_id) \o <<"SECTION">>)

\* A variant of MrxsNonHierLevel that numbers the records within each layer.
MrxsNonHierLevel_RecordInLayer(dat, layer_id, level_id, record) ==
    [layer_id |-> layer_id,
     id |-> level_id,
     record |-> level_id,
     layer_name |-> get(dat, MRXS_HIERARCHICAL, LayerKey(layer_id, "NAME")),
     key_prefix |-> KeyPrefix(layer_id, level_id),
     name |-> get(dat, MRXS_HIERARCHICAL, KeyPrefix(layer_id, level_id)),
     section_key |-> KeyPrefix(layer_id, level_id) \o <<"SECTION">>,
     section |-> get(dat, MRXS_HIERARCHICAL,
                     KeyPrefix(layer_id, level_id) \o <<"SECTION">>)]

MrxsNonHierLevel(dat, layer_id, level_id, record) ==
    [layer_id |-> layer_id,
     id |-> level_id,
     record |-> record,
     layer_name |-> get(dat, MRXS_HIERARCHICAL, LayerKey(layer_id, "NAME")),
     key_prefix |-> KeyPrefix(layer_id, level_id),
     name |-> get(dat, MRXS_HIERARCHICAL, KeyPrefix(layer_id, level_id)),
     section_key |-> KeyPrefix(layer_id, level_id) \o <<"SECTION">>,
     section |-> get(dat, MRXS_HIERARCHICAL,
                     KeyPrefix(layer_id, level_id) \o <<"SECTION">>)]

\* The two loops of _make_levels, at layer layer_id and level level_id with
\* the levels acc built so far; layer_count and level_count are the getint
\* results, -1 where getint raises.
RECURSIVE MakeLevels(_, _, _, _)
MakeLevelsIn(dat, layer_id, level_id, acc, layer_count, level_count) ==
    IF layer_id >= layer_count THEN [err |-> "", level_list |-> acc]
    ELSE IF level_count = -1
    THEN [err |-> "configparser.Error", level_list |-> acc]
    ELSE IF level_id >= level_count
    THEN MakeLevels(dat, layer_id + 1, 0, acc)
    ELSE IF ~LevelOk(dat, layer_id, level_id)
    THEN [err |-> "configparser.Error", level_list |-> acc]
    ELSE MakeLevels(dat, layer_id, level_id + 1,
                    Append(acc, MrxsNonHierLevel(dat, layer_id, level_id,
                                                 Len(acc))))

MakeLevels(dat, layer_id, level_id, acc) ==
    MakeLevelsIn(dat, layer_id, level_id, acc,
                 getint(dat, MRXS_HIERARCHICAL, <<"NONHIER", "COUNT">>),
                 getint(dat, MRXS_HIERARCHICAL, LayerKey(layer_id, "COUNT")))

\* MrxsFile._make_levels: [err, level_list].
make_levels(dat) ==
    IF getint(dat, MRXS_HIERARCHICAL, <<"NONHIER", "COUNT">>) = -1
    THEN [err |-> "configparser.Error", level_list |-> <<>>]
    ELSE MakeLevels(dat, 0, 0, <<>>)

\* self._levels[(layer_name, level_name)]: the last level built with the
\* identity, KeyError when there is none.
HasLevel(level_list, layer_name, level_name) ==
    \E i \in 1..Len(level_list) :
        /\ level_list[i].layer_name = layer_name
        /\ level_list[i].name = level_name

LevelOf(level_list, layer_name, level_name) ==
    level_list[CHOOSE i \in 1..Len(level_list) :
        /\ level_list[i].layer_name = layer_name
        /\ level_list[i].name = level_name
        /\ \A j \in (i + 1)..Len(level_list) :
              ~(/\ level_list[j].layer_name = layer_name
                /\ level_list[j].name = level_name)]

(***************************************************************************)
(* MrxsFile: the edits of Slidedat.ini in delete_level.                    *)
(***************************************************************************)
\* MrxsFile._hier_keys_for_level: the keys of the level, in file order.
hier_keys_for_level(dat, level) ==
    [i \in 1..Len(SelectSeq(items(dat, MRXS_HIERARCHICAL),
                            LAMBDA it : KeyHasPrefix(it.key, level.key_prefix)))
        |-> SelectSeq(items(dat, MRXS_HIERARCHICAL),
                      LAMBDA it : KeyHasPrefix(it.key, level.key_prefix))[i].key]

\* The loop over _delete_key in delete_level.
RECURSIVE DeleteKeys(_, _, _)
DeleteKeys(dat, keys, i) ==
    IF i > Len(keys) THEN dat
    ELSE DeleteKeys(remove_option(dat, MRXS_HIERARCHICAL, keys[i]),
                    keys, i + 1)

\* MrxsFile._rename_key
rename_key(dat, section, old, new) ==
    IF dat.err # "" THEN dat
    ELSE IF ~has_option(dat, section, old) THEN Fail(dat, "NoOptionError")
    ELSE set(remove_option(dat, section, old), section, new,
             get(dat, section, old))

\* The loop over _rename_key in delete_level.
RECURSIVE RenameKeys(_, _, _, _, _)
RenameKeys(dat, keys, i, cur_level, prev_level) ==
    IF i > Len(keys) THEN dat
    ELSE RenameKeys(rename_key(dat, MRXS_HIERARCHICAL, keys[i],
                               KeyReplace(keys[i], cur_level.key_prefix,
                                          prev_level.key_prefix)),
                    keys, i + 1, cur_level, prev_level)

\* The loop over self._dat.set(new, k, v) in _rename_section.
RECURSIVE SetAll(_, _, _, _)
SetAll(dat, section, its, i) ==
    IF i > Len(its) THEN dat
    ELSE SetAll(set(dat, section, its[i].key, its[i].value),
                section, its, i + 1)

\* MrxsFile._rename_section
rename_section(dat, old, new) ==
    IF dat.err # "" THEN dat
    ELSE IF ~has_section(dat, old) THEN dat
    ELSE remove_section(SetAll(add_section(dat, new), new,
                               items(dat, old), 1),
                        old)

\* A turn of the loop that leaves the _SECTION key as _rename_key left it.
RenumberLevel_KeepSectionKey(dat, cur_level, prev_level) ==
    rename_section(
        RenameKeys(dat, hier_keys_for_level(dat, cur_level), 1,
                   cur_level, prev_level),
        cur_level.section, prev_level.section)

\* One turn of the loop over the later levels in delete_level.
RenumberLevel(dat, cur_level, prev_level) ==
    rename_section(
        set(RenameKeys(dat, hier_keys_for_level(dat, cur_level), 1,
                       cur_level, prev_level),
            MRXS_HIERARCHICAL, prev_level.section_key, prev_level.section),
        cur_level.section, prev_level.section)

RECURSIVE RenumberFrom(_, _, _, _)
\* The loop over self._level_list[record + 1:], at list index i.
RenumberFrom(dat, level_list, i, prev_level) ==
    IF i > Len(level_list) THEN dat
    ELSE IF level_list[i].layer_id # prev_level.layer_id THEN dat
    ELSE RenumberFrom(RenumberLevel(dat, level_list[i], prev_level),
                      level_list, i + 1, level_list[i])

\* str(count_v - 1), as _write and getint see the value _set_key stores.
CountStr(count_v) == IF count_v = 0 THEN "-1" ELSE Dec(count_v - 1)

\* The update of NONHIER_<layer>_COUNT in delete_level.
DecrementCount(dat, count_k) ==
    IF dat.err # "" THEN dat
    ELSE IF getint(dat, MRXS_HIERARCHICAL, count_k) = -1
    THEN Fail(dat, "configparser.Error")
    ELSE set(dat, MRXS_HIERARCHICAL, count_k,
             CountStr(getint(dat, MRXS_HIERARCHICAL, count_k)))

\* delete_level from 'Remove slidedat keys' to 'Update level count'.
EditDat(dat, level_list, level) ==
    DecrementCount(
        RenumberFrom(
            remove_section(
                DeleteKeys(dat, hier_keys_for_level(dat, level), 1),
                level.section),
            level_list, level.record + 2, level),
        LayerKey(level.layer_id, "COUNT"))

(***************************************************************************)
(* MrxsFile: the index file and the data files.  The data files are a      *)
(* function from file names to byte sequences.                             *)
(***************************************************************************)
MRXS_NONHIER_ROOT_OFFSET == 41

\* f.seek(pos), then MrxsFile._read_int32(f): [err, v].
read_int32(f, pos) ==
    IF pos < 0 THEN [err |-> "OSError", v |-> 0]
    ELSE IF Len(FileRead(f, pos, 4)) # 4 THEN [err |-> "Short read", v |-> 0]
    ELSE [err |-> "", v |-> SIntLE(FileRead(f, pos, 4))]

\* MrxsFile._assert_int32 on the result r of a read.
assert_int32(r, v) ==
    IF r.err # "" THEN r.err
    ELSE IF r.v # v THEN "ValueError"
    ELSE ""

LocFail(e) == [err |-> e, path |-> "", position |-> 0, size |-> 0]

\* self._datafiles[fileno], an index below zero counting from the end.
DataFileOf(datafiles, fileno, position, size) ==
    IF fileno >= Len(datafiles) \/ fileno < 0 - Len(datafiles)
    THEN LocFail("IndexError")
    ELSE [err |-> "",
          path |-> datafiles[IF fileno < 0 THEN Len(datafiles) + fileno + 1
                             ELSE fileno + 1],
          position |-> position, size |-> size]

\* _get_data_location from 'check pagesize': the seven words at the page.
LocOfPage(datafiles, w1, w2, w3, w4, position, size, fileno) ==
    IF assert_int32(w1, 1) # "" THEN LocFail(assert_int32(w1, 1))
    ELSE IF w2.err # "" THEN LocFail(w2.err)
    ELSE IF assert_int32(w3, 0) # "" THEN LocFail(assert_int32(w3, 0))
    ELSE IF assert_int32(w4, 0) # "" THEN LocFail(assert_int32(w4, 0))
    ELSE IF position.err # "" THEN LocFail(position.err)
    ELSE IF size.err # "" THEN LocFail(size.err)
    ELSE IF fileno.err # "" THEN LocFail(fileno.err)
    ELSE DataFileOf(datafiles, fileno.v, position.v, size.v)

LocOfPagePtr(index, datafiles, zero, page) ==
    IF assert_int32(zero, 0) # "" THEN LocFail(assert_int32(zero, 0))
    ELSE IF page.err # "" THEN LocFail(page.err)
    ELSE LocOfPage(datafiles,
                   read_int32(index, page.v), read_int32(index, page.v + 4),
                   read_int32(index, page.v + 8),
                   read_int32(index, page.v + 12),
                   read_int32(index, page.v + 16),
                   read_int32(index, page.v + 20),
                   read_int32(index, page.v + 24))

LocOfListHead(index, datafiles, list_head) ==
    IF list_head.err # "" THEN LocFail(list_head.err)
    ELSE LocOfPagePtr(index, datafiles, read_int32(index, list_head.v),
                      read_int32(index, list_head.v + 4))

LocOfTable(index, datafiles, record, table_base) ==
    IF table_base.err # "" THEN LocFail(table_base.err)
    ELSE LocOfListHead(index, datafiles,
                       read_int32(index, table_base.v + record * 4))

\* MrxsFile._get_data_location: [err, path, position, size].
get_data_location(index, datafiles, record) ==
    LocOfTable(index, datafiles, record,
               read_int32(index, MRXS_NONHIER_ROOT_OFFSET))

\* fh.truncate(offset)
Truncate(f, offset) ==
    IF offset <= Len(f) THEN SubSeq(f, 1, offset)
    ELSE f \o Zeros(offset - Len(f))

\* A _zero_record that checks the JPEG SOI only where it zeroes.
ZeroFile_CheckWhereZeroed(data, loc, f) ==
    IF loc.position < 0 THEN [err |-> "OSError", data |-> data]
    ELSE IF Len(f) = loc.position + loc.size
    THEN [err |-> "",
          data |-> [data EXCEPT ![loc.path] = Truncate(f, loc.position)]]
    ELSE IF FileRead(f, loc.position, Len(JPEG_SOI)) # JPEG_SOI
    THEN [err |-> "Unexpected data in nonhier image", data |-> data]
    ELSE [err |-> "TypeError", data |-> data]

\* A _zero_record that truncates the data file before it checks the JPEG
\* SOI.
ZeroFile_TruncateBeforeCheck(data, loc, f) ==
    IF loc.position < 0 THEN [err |-> "OSError", data |-> data]
    ELSE IF FileRead(f, loc.position, Len(JPEG_SOI)) # JPEG_SOI
    THEN [err |-> "Unexpected data in nonhier image",
          data |-> IF Len(f) = loc.position + loc.size
                   THEN [data EXCEPT ![loc.path] = Truncate(f, loc.position)]
                   ELSE data]
    ELSE IF Len(f) = loc.position + loc.size
    THEN [err |-> "",
          data |-> [data EXCEPT ![loc.path] = Truncate(f, loc.position)]]
    ELSE [err |-> "TypeError", data |-> data]

\* _zero_record on the data file f at loc.  fh.write('\0' * length) hands a
\* str to a file opened 'r+b': it raises TypeError and writes nothing.
ZeroFile(data, loc, f) ==
    IF loc.position < 0 THEN [err |-> "OSError", data |-> data]
    ELSE IF FileRead(f, loc.position, Len(JPEG_SOI)) # JPEG_SOI
    THEN [err |-> "Unexpected data in nonhier image", data |-> data]
    ELSE IF Len(f) = loc.position + loc.size
    THEN [err |-> "",
          data |-> [data EXCEPT ![loc.path] = Truncate(f, loc.position)]]
    ELSE [err |-> "TypeError", data |-> data]

\* MrxsFile._zero_record: [err, data].
zero_record(data, loc) ==
    IF loc.err # "" THEN [err |-> loc.err, data |-> data]
    ELSE IF loc.path \notin DOMAIN data
    THEN [err |-> "FileNotFoundError", data |-> data]
    ELSE ZeroFile(data, loc, data[loc.path])

MoveEntries(index, record, entries_to_move, table_base) ==
    IF table_base.err # "" THEN [err |-> table_base.err, index |-> index]
    ELSE IF table_base.v + (record + 1) * 4 < 0
    THEN [err |-> "OSError", index |-> index]
    ELSE IF Len(FileRead(index, table_base.v + (record + 1) * 4,
                         entries_to_move * 4)) # entries_to_move * 4
    THEN [err |-> "Short read", index |-> index]
    ELSE IF table_base.v + record * 4 < 0
    THEN [err |-> "OSError", index |-> index]
    ELSE [err |-> "",
          index |-> FileWrite(index, table_base.v + record * 4,
                              FileRead(index, table_base.v + (record + 1) * 4,
                                       entries_to_move * 4))]

\* A compaction that moves one entry fewer than follow the record.
delete_index_record_OneShort(index, level_count, record) ==
    IF level_count - record - 1 = 0 THEN [err |-> "", index |-> index]
    ELSE MoveEntries(index, record, level_count - record - 2,
                     read_int32(index, MRXS_NONHIER_ROOT_OFFSET))

\* MrxsFile._delete_index_record with len(self._level_list) = level_count:
\* [err, index].
delete_index_record(index, level_count, record) ==
    IF level_count - record - 1 = 0 THEN [err |-> "", index |-> index]
    ELSE MoveEntries(index, record, level_count - record - 1,
                     read_int32(index, MRXS_NONHIER_ROOT_OFFSET))

(***************************************************************************)
(* MrxsFile.__init__, _write and delete_level.  Slidedat.ini on disk is    *)
(* the record [bom, eol, sections]: the number of byte-order marks it      *)
(* begins with, the line ending of its lines ("LF" or "CRLF") and its      *)
(* sections.  An MrxsFile is the record [state, dat, have_bom, datafiles,  *)
(* level_list].                                                            *)
(***************************************************************************)
NoMrxs ==
    [state |-> "none", dat |-> [err |-> "", sections |-> <<>>],
     have_bom |-> FALSE, datafiles |-> <<>>, level_list |-> <<>>]

\* The open(..., encoding="utf-8-sig") of __init__ drops one byte-order
\* mark before fh.read(len(UTF8_BOM)) looks for one.
HaveBom(ini) == ini.bom >= 2

\* RawConfigParser.read_file: the file is open in text mode, which reads
\* either line ending as "\n".
read_file(ini) == [err |-> "", sections |-> ini.sections]

\* The list of data file paths built in __init__.
DataFileNames(dat) ==
    [i \in 1..Max(getint(dat, "DATAFILE", <<"FILE", "COUNT">>), 0) |->
        get(dat, "DATAFILE", <<"FILE", Dec(i - 1)>>)]

FilesOk(dat) ==
    /\ has_option(dat, MRXS_HIERARCHICAL, <<"INDEXFILE">>)
    /\ getint(dat, "DATAFILE", <<"FILE", "COUNT">>) >= 0
    /\ \A i \in 1..getint(dat, "DATAFILE", <<"FILE", "COUNT">>) :
          has_option(dat, "DATAFILE", <<"FILE", Dec(i - 1)>>)

MrxsFileOf(ini, dat, ml) ==
    IF ml.err # "" THEN [err |-> ml.err, mrxs |-> NoMrxs]
    ELSE [err |-> "",
          mrxs |-> [state |-> "open", dat |-> dat, have_bom |-> HaveBom(ini),
                    datafiles |-> DataFileNames(dat),
                    level_list |-> ml.level_list]]

\* MrxsFile(filename) for a filename that ends in .mrxs: [err, mrxs].
MrxsFile(ini) ==
    IF ~FilesOk(read_file(ini))
    THEN [err |-> "configparser.Error", mrxs |-> NoMrxs]
    ELSE MrxsFileOf(ini, read_file(ini), make_levels(read_file(ini)))

\* buf.getvalue().replace('\n', '\r\n') on text whose lines end as eol
CrLf(eol) == IF eol = "LF" THEN "CRLF" ELSE eol

\* MrxsFile._write: the file it leaves on disk.  RawConfigParser.write ends
\* every line with "\n".
write(have_bom, dat) ==
    [bom |-> IF have_bom THEN 1 ELSE 0, eol |-> CrLf("LF"),
     sections |-> dat.sections]

Out(err, ini, index, data, m) ==
    [err |-> err, ini |-> ini, index |-> index, data |-> data, mrxs |-> m]

\* delete_level from 'Write slidedat', the parser being d.
DeleteEdited(ini, index, data, m, d, ml) ==
    IF d.err # ""
    THEN Out(d.err, ini, index, data, [m EXCEPT !.dat = [d EXCEPT !.err = ""]])
    ELSE Out(ml.err, write(m.have_bom, d), index, data,
             [m EXCEPT !.dat = d, !.level_list = ml.level_list])

DeleteIndexedOf(ini, index, data, m, d) ==
    DeleteEdited(ini, index, data, m, d, make_levels(d))

\* delete_level from 'Remove slidedat keys', x being the result of
\* _delete_index_record.
DeleteIndexed(ini, data, m, level, x) ==
    IF x.err # "" THEN Out(x.err, ini, x.index, data, m)
    ELSE DeleteIndexedOf(ini, x.index, data, m,
                         EditDat(m.dat, m.level_list, level))

\* delete_level from 'Delete pointer from nonhier table', z being the result
\* of _zero_record.
DeleteZeroed(ini, index, m, level, z) ==
    IF z.err # "" THEN Out(z.err, ini, index, z.data, m)
    ELSE DeleteIndexed(ini, z.data, m, level,
                       delete_index_record(index, Len(m.level_list),
                                           level.record))

DeleteLevelOf(ini, index, data, m, level) ==
    DeleteZeroed(ini, index, m, level,
                 zero_record(data, get_data_location(index, m.datafiles,
                                                     level.record)))

\* MrxsFile.delete_level(layer_name, level_name) on the MrxsFile m and the
\* files ini, index and data: [err, ini, index, data, mrxs].
delete_level(ini, index, data, m, layer_name, level_name) ==
    IF ~HasLevel(m.level_list, layer_name, level_name)
    THEN Out("KeyError", ini, index, data, m)
    ELSE DeleteLevelOf(ini, index, data, m,
                       LevelOf(m.level_list, layer_name, level_name))

(***************************************************************************)
(* The slides the model starts from.  A slide has two layers of            *)
(* counts[1] and counts[2] levels; record r has a payload of three bytes   *)
(* in data file r % files, the payloads of a file lying in record order    *)
(* ("fwd") or against it ("rev") after a header of two bytes.              *)
(***************************************************************************)
LayerNames == <<"Scan data layer", "Stitching layer">>

LevelName(i, j) ==
    IF i = 0 /\ j = 1 THEN "ScanDataLayer_SlideBarcode"
    ELSE "Level_" \o Dec(i) \o "_" \o Dec(j)

SectionName(i, j) ==
    "NONHIERLAYER_" \o Dec(i) \o "_LEVEL_" \o Dec(j) \o "_SECTION"

Item(key, v) == [key |-> key, value |-> v]

LevelItems(i, j) ==
    <<Item(KeyPrefix(i, j), LevelName(i, j)),
      Item(KeyPrefix(i, j) \o <<"SECTION">>, SectionName(i, j)),
      Item(KeyPrefix(i, j) \o <<"IMAGENUMBER", "X">>,
           "x" \o Dec(i) \o Dec(j))>>

LayerItems(c, i) ==
    <<Item(LayerKey(i, "NAME"), LayerNames[i + 1]),
      Item(LayerKey(i, "COUNT"), Dec(c.counts[i + 1]))>>
    \o Concat([j \in 1..c.counts[i + 1] |-> LevelItems(i, j - 1)])

HierItems(c) ==
    <<Item(<<"INDEXFILE">>, "Index.dat"),
      Item(<<"NONHIER", "COUNT">>, Dec(2))>>
    \o LayerItems(c, 0) \o LayerItems(c, 1)

DataFileName(fi) == "Data000" \o Dec(fi) \o ".dat"

DataFileItems(c) ==
    <<Item(<<"FILE", "COUNT">>, Dec(c.files))>>
    \o [fi \in 1..c.files |-> Item(<<"FILE", Dec(fi - 1)>>,
                                   DataFileName(fi - 1))]

\* The flat list of the levels: record r is level RecordIds(c)[r + 1].
RecordIds(c) ==
    [r \in 1..(c.counts[1] + c.counts[2]) |->
        IF r <= c.counts[1] THEN <<0, r - 1>>
        ELSE <<1, r - 1 - c.counts[1]>>]

LevelSection(c, r) ==
    [name |-> SectionName(RecordIds(c)[r][1], RecordIds(c)[r][2]),
     items |-> <<Item(<<"CONTENT">>,
                     LevelName(RecordIds(c)[r][1], RecordIds(c)[r][2]))>>]

IniFile(c) ==
    [bom |-> c.bom,
     eol |-> c.eol,
     sections |->
        <<[name |-> "GENERAL",
           items |-> <<Item(<<"SLIDE", "NAME">>, "slide")>>],
          [name |-> MRXS_HIERARCHICAL, items |-> HierItems(c)],
          [name |-> "DATAFILE", items |-> DataFileItems(c)]>>
        \o SelectSeq([r \in 1..Len(RecordIds(c)) |-> LevelSection(c, r)],
                     LAMBDA sec : c.missing = 0
                        \/ sec.name # LevelSection(c, c.missing).name)]

RecordCount(c) == c.counts[1] + c.counts[2]

\* The number of payloads in data file fi (from 0).
PayloadCount(c, fi) == (RecordCount(c) - fi + c.files - 1) \div c.files

\* The place of record r (from 0) among the payloads of its data file.
Rank(c, r) ==
    IF c.order = "fwd" THEN r \div c.files
    ELSE PayloadCount(c, r % c.files) - 1 - (r \div c.files)

Position(c, r) == 2 + 3 * Rank(c, r)

Payload(c, r) ==
    <<(IF c.bad = r + 1 THEN 0 ELSE 255), 216, 16 + r>>

\* The record whose payload is the k-th (from 0) of data file fi.
RecordAt(c, fi, k) ==
    IF c.order = "fwd" THEN k * c.files + fi
    ELSE (PayloadCount(c, fi) - 1 - k) * c.files + fi

DataFile(c, fi) ==
    <<68, 70>>
    \o Concat([k \in 1..PayloadCount(c, fi) |->
                  Payload(c, RecordAt(c, fi, k - 1))])

DataFiles(c) ==
    [name \in {DataFileName(fi) : fi \in 0..(c.files - 1)} |->
        DataFile(c, CHOOSE fi \in 0..(c.files - 1) : DataFileName(fi) = name)]

Int32(v) == PackItem(v, 4, "<")

TableBase == MRXS_NONHIER_ROOT_OFFSET + 4

ListHeadAt(c, r) == TableBase + 4 * RecordCount(c) + 4 + 36 * r

IndexRecord(c, r) ==
    Int32(0) \o Int32(ListHeadAt(c, r) + 8)
    \o Int32(1) \o Int32(0) \o Int32(0) \o Int32(0)
    \o Int32(Position(c, r)) \o Int32(3) \o Int32(r % c.files)

IndexFile(c) ==
    [i \in 1..MRXS_NONHIER_ROOT_OFFSET |-> 32]
    \o Int32(TableBase)
    \o Concat([r \in 1..RecordCount(c) |-> Int32(ListHeadAt(c, r - 1))])
    \o Int32(0)
    \o Concat([r \in 1..RecordCount(c) |-> IndexRecord(c, r - 1)])

\* The index file of slide c with a fault: "short" cuts the file off in the
\* last word of the last record, "pagesize" gives the page of record 0 the
\* size 2 and "fileno" gives record 0 a data file the slide does not have.
IndexDamages == {"none", "short", "pagesize", "fileno"}

DamagedIndex(c, damage) ==
    CASE damage = "short" -> SubSeq(IndexFile(c), 1, Len(IndexFile(c)) - 2)
      [] damage = "pagesize" ->
            FileWrite(IndexFile(c), ListHeadAt(c, 0) + 8, Int32(2))
      [] damage = "fileno" ->
            FileWrite(IndexFile(c), ListHeadAt(c, 0) + 32, Int32(c.files))
      [] OTHER -> IndexFile(c)

(***************************************************************************)
(* The format handlers.  A handler run on the bytes f of the target file   *)
(* ends as the record [err, file, open]: the exception it raises ("" for   *)
(* none), the bytes it leaves on disk and the number of file handles it    *)
(* opened and has not closed.                                              *)
(***************************************************************************)
\* b'Aperio'
Aperio ==
    <<65, 112, 101, 114, 105, 111>>

\* b'label '
LabelWord ==
    <<108, 97, 98, 101, 108, 32>>

\* b'macro '
MacroWord ==
    <<109, 97, 99, 114, 111, 32>>

\* "Filename"
FilenameWord ==
    <<70, 105, 108, 101, 110, 97, 109, 101>>

\* " = "
Equals ==
    <<32, 61, 32>>

\* b'Label_Image'
LabelImage ==
    <<76, 97, 98, 101, 108, 95, 73, 109, 97, 103, 101>>

\* our_xmp of do_ventana_tif
our_xmp ==
    <<60, 105, 83, 99, 97, 110, 32, 77, 97, 103, 110, 105, 102, 105, 99,
      97, 116, 105, 111, 110, 61, 39, 52, 48, 39, 32, 83, 99, 97, 110, 82,
      101, 115, 61, 39, 48, 46, 50, 53, 39, 62, 60, 47, 105, 83, 99, 97,
      110, 62>>

\* our_image_desc of do_ventana_tif
our_image_desc ==
    <<60, 86, 101, 110, 116, 97, 110, 97, 32, 72, 111, 112, 107, 105, 110,
      115, 32, 80, 97, 116, 104, 111, 108, 111, 103, 121, 32, 65, 110, 111,
      110, 121, 109, 105, 122, 101, 100, 32, 70, 111, 114, 109, 97, 116,
      32, 118, 49, 46, 48, 46, 62>>

\* bs.startswith(p)
startswith(bs, p) == Len(bs) >= Len(p) /\ SubSeq(bs, 1, Len(p)) = p

\* sub in bs
Contains(bs, sub) ==
    \E i \in 0..(Len(bs) - Len(sub)) : SubSeq(bs, i + 1, i + Len(sub)) = sub

\* bs.find(sub) from 1, 0 when sub is not in bs
Find(bs, sub) ==
    IF ~Contains(bs, sub) THEN 0
    ELSE CHOOSE i \in 1..(Len(bs) - Len(sub) + 1) :
            /\ SubSeq(bs, i, i + Len(sub) - 1) = sub
            /\ \A j \in 1..(i - 1) : SubSeq(bs, j, j + Len(sub) - 1) # sub

\* bytes.splitlines: the lines end at \n, \r or \r\n; cur is the line being
\* read and acc the lines before it.
RECURSIVE SplitLinesFrom(_, _, _, _)
SplitLinesFrom(bs, i, cur, acc) ==
    IF i > Len(bs) THEN (IF cur = <<>> THEN acc ELSE Append(acc, cur))
    ELSE IF bs[i] = 10 THEN SplitLinesFrom(bs, i + 1, <<>>, Append(acc, cur))
    ELSE IF bs[i] = 13
    THEN SplitLinesFrom(bs, IF i < Len(bs) /\ bs[i + 1] = 10 THEN i + 2
                            ELSE i + 1, <<>>, Append(acc, cur))
    ELSE SplitLinesFrom(bs, i + 1, Append(cur, bs[i]), acc)

splitlines(bs) == SplitLinesFrom(bs, 1, <<>>, <<>>)

\* s.split(sep)
RECURSIVE split(_, _)
split(s, sep) ==
    IF Find(s, sep) = 0 THEN <<s>>
    ELSE <<SubSeq(s, 1, Find(s, sep) - 1)>>
         \o split(SubSeq(s, Find(s, sep) + Len(sep), Len(s)), sep)

\* sep.join(parts)
RECURSIVE join(_, _)
join(sep, parts) ==
    IF parts = <<>> THEN <<>>
    ELSE IF Len(parts) = 1 THEN parts[1]
    ELSE parts[1] \o sep \o join(sep, Tail(parts))

\* bytes.decode() and str.encode(): the text of bytes below 0x80 is the
\* bytes themselves, a byte from 0x80 on is no UTF-8 in the files of the
\* model.
Decodes(bs) == \A i \in 1..Len(bs) : bs[i] < 128

HandlerOut(err, f, open) == [err |-> err, file |-> f, open |-> open]

\* directory.entries[IMAGE_DESCRIPTION].value() as a byte string.
Description(fh, f, d) ==
    IF ~HasTag(d, IMAGE_DESCRIPTION)
    THEN [err |-> "KeyError", items |-> <<>>, loc |-> 0]
    ELSE IF EntryOf(d, IMAGE_DESCRIPTION).type # ASCII
    THEN [value(fh, f, EntryOf(d, IMAGE_DESCRIPTION)) EXCEPT
             !.err = IF @ = "" THEN "AttributeError" ELSE @]
    ELSE value(fh, f, EntryOf(d, IMAGE_DESCRIPTION))

\* len(lines) >= 2 and lines[1].startswith(word)
SecondLineStarts(lines, word) == Len(lines) >= 2 /\ startswith(lines[2], word)

\* The loop of do_aperio_svs over fh.directories from directory i: k is the
\* first directory whose description has a second line starting with word,
\* 0 when the loop ends without one.
RECURSIVE FindSecondLine(_, _, _, _, _)
FindSecondLineOf(fh, f, dirs, i, word, desc) ==
    IF desc.err # "" THEN [err |-> desc.err, k |-> 0]
    ELSE IF SecondLineStarts(splitlines(desc.items), word)
    THEN [err |-> "", k |-> i]
    ELSE FindSecondLine(fh, f, dirs, i + 1, word)

FindSecondLine(fh, f, dirs, i, word) ==
    IF i > Len(dirs) THEN [err |-> "", k |-> 0]
    ELSE FindSecondLineOf(fh, f, dirs, i, word, Description(fh, f, dirs[i]))

\* TiffFile.__exit__ after the body of the with block ended as r.
Closed0(r) == HandlerOut(r.err, r.file, 0)

\* The end of a with block that deletes the directory found: the file is
\* closed whatever delete did.
DeleteFound(fh, f, dirs, found, expected_prefix, nolabel) ==
    IF found.err # "" THEN HandlerOut(found.err, f, 0)
    ELSE IF found.k = 0 THEN HandlerOut(nolabel, f, 0)
    ELSE Closed0(TiffDirectory_delete(fh, f, dirs[found.k], expected_prefix))

\* One with block of do_aperio_svs that deletes the first directory whose
\* second description line starts with word; t is TiffFile(filename), which
\* leaves its file open when it raises.
SvsStripOf(f, t, word, nolabel) ==
    IF t.err # "" THEN HandlerOut(t.err, f, 1)
    ELSE DeleteFound(t.tf, f, t.directories,
                     FindSecondLine(t.tf, f, t.directories, 1, word),
                     <<>>, nolabel)

SvsStrip(f, word, nolabel) == SvsStripOf(f, TiffFile(f), word, nolabel)

\* cleanse_filename: [err, block]
cleanse_filename(filename_block) ==
    IF Len(split(filename_block, Equals)) # 2
    THEN [err |-> "ValueError", block |-> <<>>]
    ELSE [err |-> "",
          block |-> join(Equals, <<split(filename_block, Equals)[1], <<88>>>>)]

\* purified_bits
Purified(desc_bits) ==
    [i \in 1..Len(desc_bits) |->
        IF ~Contains(desc_bits[i], FilenameWord)
        THEN [err |-> "", block |-> desc_bits[i]]
        ELSE cleanse_filename(desc_bits[i])]

\* clean_desc of the bits purified: [err, desc]
CleanDescOf(bits) ==
    IF \E i \in 1..Len(bits) : bits[i].err # ""
    THEN [err |-> "ValueError", desc |-> <<>>]
    ELSE [err |-> "",
          desc |-> join(<<124>>, [i \in 1..Len(bits) |-> bits[i].block])]

CleanDesc(img_desc) == CleanDescOf(Purified(split(img_desc, <<124>>)))

\* The loop of do_aperio_svs that removes the filename, from directory i.
RECURSIVE CleanseFrom(_, _, _, _)
CleanseWritten(fh, dirs, i, w) ==
    IF w.err # "" THEN HandlerOut(w.err, w.file, 0)
    ELSE CleanseFrom(fh, w.file, dirs, i + 1)

CleanseWrite(fh, f, dirs, i, c) ==
    IF c.err # "" THEN HandlerOut(c.err, f, 0)
    ELSE CleanseWritten(fh, dirs, i,
                        overwrite_entry(fh, f,
                                        EntryOf(dirs[i], IMAGE_DESCRIPTION),
                                        c.desc))

CleanseDir(fh, f, dirs, i, desc) ==
    IF desc.err # "" THEN HandlerOut(desc.err, f, 0)
    ELSE IF ~Decodes(desc.items) THEN HandlerOut("UnicodeDecodeError", f, 0)
    ELSE IF ~Contains(desc.items, FilenameWord)
    THEN CleanseFrom(fh, f, dirs, i + 1)
    ELSE CleanseWrite(fh, f, dirs, i, CleanDesc(desc.items))

CleanseFrom(fh, f, dirs, i) ==
    IF i > Len(dirs) THEN HandlerOut("", f, 0)
    ELSE CleanseDir(fh, f, dirs, i, Description(fh, f, dirs[i]))

\* The last with block of do_aperio_svs.
SvsCleanse(f, t) ==
    IF t.err # "" THEN HandlerOut(t.err, f, 1)
    ELSE CleanseFrom(t.tf, f, t.directories, 1)

SvsFilename(m) ==
    IF m.err # "" THEN m ELSE SvsCleanse(m.file, TiffFile(m.file))

SvsMacro(l) ==
    IF l.err # "" THEN l
    ELSE SvsFilename(SvsStrip(l.file, MacroWord,
                              "No macro detected in SVS file"))

SvsLabel(c) ==
    IF c.err # "" THEN c
    ELSE SvsMacro(SvsStrip(c.file, LabelWord, "No label detected in SVS file"))

\* The check for an SVS file: desc0 is the description of directory 0.
SvsCheckDesc(f, desc0) ==
    IF desc0.err = "KeyError" THEN HandlerOut("UnrecognizedFile", f, 0)
    ELSE IF desc0.err # "" THEN HandlerOut(desc0.err, f, 0)
    ELSE IF ~startswith(desc0.items, Aperio)
    THEN HandlerOut("UnrecognizedFile", f, 0)
    ELSE HandlerOut("", f, 0)

SvsCheck(f, t) ==
    IF t.err # "" THEN HandlerOut(t.err, f, 1)
    ELSE SvsCheckDesc(f, Description(t.tf, f, t.directories[1]))

\* do_aperio_svs(filename) on the bytes f.
do_aperio_svs(f) == SvsLabel(SvsCheck(f, TiffFile(f)))

\* The loop of do_hamamatsu_ndpi over fh.directories from directory i: k is
\* the first directory with entries[NDPI_SOURCELENS].value()[0] == -1.
RECURSIVE FindLens(_, _, _, _)
FindLensOf(fh, f, dirs, i, v) ==
    IF v.err # "" THEN [err |-> v.err, k |-> 0]
    ELSE IF v.items = <<>> THEN [err |-> "IndexError", k |-> 0]
    ELSE IF v.items[1] = 0 - 1 THEN [err |-> "", k |-> i]
    ELSE FindLens(fh, f, dirs, i + 1)

FindLens(fh, f, dirs, i) ==
    IF i > Len(dirs) THEN [err |-> "", k |-> 0]
    ELSE IF ~HasTag(dirs[i], NDPI_SOURCELENS)
    THEN [err |-> "KeyError", k |-> 0]
    ELSE FindLensOf(fh, f, dirs, i,
                    value(fh, f, EntryOf(dirs[i], NDPI_SOURCELENS)))

NdpiOf(f, t) ==
    IF t.err # "" THEN HandlerOut(t.err, f, 1)
    ELSE IF ~HasTag(t.directories[1], NDPI_MAGIC)
    THEN HandlerOut("UnrecognizedFile", f, 0)
    ELSE DeleteFound(t.tf, f, t.directories,
                     FindLens(t.tf, f, t.directories, 1),
                     JPEG_SOI, "No label in NDPI file")

\* do_hamamatsu_ndpi(filename) on the bytes f.
do_hamamatsu_ndpi(f) == NdpiOf(f, TiffFile(f))

\* The loop of do_ventana_tif over fh.directories from directory i: k is the
\* first directory whose description has a first line starting with
\* Label_Image.
RECURSIVE FindFirstLine(_, _, _, _)
FindFirstLineOf(fh, f, dirs, i, desc) ==
    IF desc.err # "" THEN [err |-> desc.err, k |-> 0]
    ELSE IF splitlines(desc.items) = <<>> THEN [err |-> "IndexError", k |-> 0]
    ELSE IF startswith(splitlines(desc.items)[1], LabelImage)
    THEN [err |-> "", k |-> i]
    ELSE FindFirstLine(fh, f, dirs, i + 1)

FindFirstLine(fh, f, dirs, i) ==
    IF i > Len(dirs) THEN [err |-> "", k |-> 0]
    ELSE FindFirstLineOf(fh, f, dirs, i, Description(fh, f, dirs[i]))

\* The second overwrite of do_ventana_tif, w being the result of the first.
VentanaDesc(t, w) ==
    IF w.err # "" THEN HandlerOut(w.err, w.file, 0)
    ELSE IF ~HasTag(t.directories[2], IMAGE_DESCRIPTION)
    THEN HandlerOut("KeyError", w.file, 0)
    ELSE Closed0(overwrite_entry(t.tf, w.file,
                                 EntryOf(t.directories[2], IMAGE_DESCRIPTION),
                                 our_image_desc))

\* 'Fix file' of do_ventana_tif, r being the result of the label's delete.
VentanaFix(t, r) ==
    IF r.err # "" THEN r
    ELSE IF Len(t.directories) < 2 THEN HandlerOut("IndexError", r.file, 0)
    ELSE IF ~HasTag(t.directories[2], XMLPACKET)
    THEN HandlerOut("KeyError", r.file, 0)
    ELSE VentanaDesc(t, overwrite_entry(t.tf, r.file,
                                        EntryOf(t.directories[2], XMLPACKET),
                                        our_xmp))

\* The outcomes of the tiffinfo subprocess: its output has "iScan" in it or
\* not ("other"), it exits with an error, or the program is not installed.
TiffinfoOutcomes ==
    {"iScan", "other", "CalledProcessError", "FileNotFoundError"}

VentanaOf(f, t, tiffinfo) ==
    IF t.err # "" THEN HandlerOut(t.err, f, 1)
    ELSE IF tiffinfo = "FileNotFoundError"
    THEN HandlerOut("FileNotFoundError", f, 0)
    ELSE IF tiffinfo # "iScan" THEN HandlerOut("UnrecognizedFile", f, 0)
    ELSE VentanaFix(t, DeleteFound(t.tf, f, t.directories,
                                   FindFirstLine(t.tf, f, t.directories, 1),
                                   <<>>, "No label in TIF file"))

\* do_ventana_tif(filename) on the bytes f, tiffinfo being how the
\* subprocess ends.
do_ventana_tif(f, tiffinfo) == VentanaOf(f, TiffFile(f), tiffinfo)

\* do_3dhistech_mrxs once MrxsFile(filename) is made: the KeyError of
\* delete_level becomes the IOError 'No label in MRXS file'.
MrxsLabel(d) ==
    [d EXCEPT !.err = IF @ = "KeyError" THEN "No label in MRXS file" ELSE @]

MrxsHandlerOf(ini, index, data, r) ==
    IF r.err # "" THEN Out(r.err, ini, index, data, NoMrxs)
    ELSE MrxsLabel(delete_level(ini, index, data, r.mrxs, "Scan data layer",
                                "ScanDataLayer_SlideBarcode"))

\* do_3dhistech_mrxs(filename): ext is the extension of filename, slidedat
\* whether Slidedat.ini can be opened.  Every file it opens is opened in a
\* with block.
do_3dhistech_mrxs(ext, slidedat, ini, index, data) ==
    IF ext # ".mrxs" \/ ~slidedat
    THEN Out("UnrecognizedFile", ini, index, data, NoMrxs)
    ELSE MrxsHandlerOf(ini, index, data, MrxsFile(ini))

(***************************************************************************)
(* The slide files the handlers are run on.  A directory is the record     *)
(* [pre, post, strip, stripAt]: the entries before STRIP_OFFSETS and after *)
(* STRIP_BYTE_COUNTS, each [tag, type, count, bytes], the bytes of its one *)
(* strip and the offset its STRIP_OFFSETS names, -1 for where the strip    *)
(* lies.  A directory is laid out as its IFD, the values too long for the  *)
(* value field, then the strip.  An NDPI file has the 8-byte pointers of   *)
(* the format, the one of the header included.                             *)
(***************************************************************************)
SlideSizes(endian, kind) ==
    [endian |-> endian, kind |-> kind,
     szY |-> IF kind = "bigtiff" THEN 8 ELSE 2,
     szZ |-> IF kind = "bigtiff" THEN 8 ELSE 4,
     szD |-> IF kind = "classic" THEN 4 ELSE 8,
     hdrLen |-> CASE kind = "bigtiff" -> 16 [] kind = "ndpi" -> 12
                  [] OTHER -> 8]

SlideHeader(s) ==
    (IF s.endian = "<" THEN <<73, 73>> ELSE <<77, 77>>)
    \o PackItem(IF s.kind = "bigtiff" THEN 43 ELSE 42, 2, s.endian)
    \o (IF s.kind = "bigtiff"
        THEN PackItem(8, 2, s.endian) \o PackItem(0, 2, s.endian) ELSE <<>>)
    \o PackItem(s.hdrLen, s.szD, s.endian)

\* The bytes of the values of the entries es that lie out of line.
RECURSIVE OutOfLine(_, _)
OutOfLine(s, es) ==
    IF es = <<>> THEN <<>>
    ELSE (IF Len(es[1].bytes) > s.szZ THEN es[1].bytes ELSE <<>>)
         \o OutOfLine(s, Tail(es))

\* The entries es of an IFD, their out-of-line values lying from ool on.
SlideEntries(s, es, ool) ==
    Concat([j \in 1..Len(es) |->
               EntryBytes(s, es[j].tag, es[j].type, es[j].count,
                          IF Len(es[j].bytes) <= s.szZ THEN es[j].bytes
                          ELSE <<>>,
                          ool + Len(OutOfLine(s, SubSeq(es, 1, j - 1))))])

SlideIfdLen(s, d) ==
    s.szY + (Len(d.pre) + Len(d.post) + 2) * (4 + 2 * s.szZ) + s.szD

SlideBlockLen(s, d) ==
    SlideIfdLen(s, d) + Len(OutOfLine(s, d.pre \o d.post)) + Len(d.strip)

\* Directory d laid out at file position at, next being its out pointer.
SlideBlock(s, d, at, next) ==
    PackItem(Len(d.pre) + Len(d.post) + 2, s.szY, s.endian)
    \o SlideEntries(s, d.pre, at + SlideIfdLen(s, d))
    \o EntryBytes(s, STRIP_OFFSETS, LONG, 1,
                  Longs(<<IF d.stripAt >= 0 THEN d.stripAt
                          ELSE at + SlideBlockLen(s, d) - Len(d.strip)>>,
                        s.endian), 0)
    \o EntryBytes(s, STRIP_BYTE_COUNTS, LONG, 1,
                  Longs(<<Len(d.strip)>>, s.endian), 0)
    \o SlideEntries(s, d.post,
                    at + SlideIfdLen(s, d) + Len(OutOfLine(s, d.pre)))
    \o PackItem(next, s.szD, s.endian)
    \o OutOfLine(s, d.pre \o d.post)
    \o d.strip

RECURSIVE SlideBlocks(_, _, _, _)
SlideBlocks(s, dirs, i, at) ==
    IF i > Len(dirs) THEN <<>>
    ELSE SlideBlock(s, dirs[i], at,
                    IF i = Len(dirs) THEN 0
                    ELSE at + SlideBlockLen(s, dirs[i]))
         \o SlideBlocks(s, dirs, i + 1, at + SlideBlockLen(s, dirs[i]))

SlideOfSizes(s, dirs) == SlideHeader(s) \o SlideBlocks(s, dirs, 1, s.hdrLen)

\* The TIFF file of the directories dirs.
SlideTiff(endian, kind, dirs) == SlideOfSizes(SlideSizes(endian, kind), dirs)

AsciiEntry(tag, text) ==
    [tag |-> tag, type |-> ASCII, count |-> Len(text) + 1,
     bytes |-> text \o <<0>>]

\* The descriptions of the directories of an SVS file: an image with a
\* Filename field ("Aperio\r\n4|Filename = ab"), a label and a macro.
ImageDesc == Aperio \o <<13, 10, 52, 124>> \o FilenameWord \o Equals \o <<97, 98>>
LabelDesc == Aperio \o <<10>> \o LabelWord \o <<50>>
MacroDesc == Aperio \o <<10>> \o MacroWord \o <<50>>

\* "level=0 mag=40", the description of an image of a Ventana file, and its
\* XMP packet: "<iScan" and spaces, 50 bytes.
LevelDesc == <<108, 101, 118, 101, 108, 61, 48, 32, 109, 97, 103, 61, 52, 48>>
Xmp == [i \in 1..50 |-> IF i <= 6 THEN our_xmp[i] ELSE 32]

\* NDPI_SOURCELENS as the float le (little-endian bytes).
LensEntry(le, endian) ==
    [tag |-> NDPI_SOURCELENS, type |-> FLOAT, count |-> 1,
     bytes |-> IF endian = "<" THEN le ELSE Reverse(le)]

NdpiMagicEntry(endian) ==
    [tag |-> NDPI_MAGIC, type |-> LONG, count |-> 1,
     bytes |-> Longs(<<1>>, endian)]

\* Directory i of a file by its role.
SlideDir(role, i, endian) ==
    [pre |->
        CASE role = "image" -> <<AsciiEntry(IMAGE_DESCRIPTION, ImageDesc)>>
          [] role \in {"label", "header"} ->
                <<AsciiEntry(IMAGE_DESCRIPTION, LabelDesc)>>
          [] role = "macro" -> <<AsciiEntry(IMAGE_DESCRIPTION, MacroDesc)>>
          [] role = "vlabel" -> <<AsciiEntry(IMAGE_DESCRIPTION, LabelImage)>>
          [] role \in {"vlevel", "vthumb"} ->
                <<AsciiEntry(IMAGE_DESCRIPTION, LevelDesc)>>
          [] OTHER -> <<>>,
     post |->
        CASE role = "vlevel" ->
                <<[tag |-> XMLPACKET, type |-> BYTE, count |-> Len(Xmp),
                   bytes |-> Xmp]>>
          [] role = "lens20" ->
                <<NdpiMagicEntry(endian),
                  LensEntry(<<0, 0, 160, 65>>, endian)>>
          [] role = "lensM" ->
                <<NdpiMagicEntry(endian),
                  LensEntry(<<0, 0, 128, 191>>, endian)>>
          [] role = "lensS" ->
                <<NdpiMagicEntry(endian),
                  [tag |-> NDPI_SOURCELENS, type |-> SHORT, count |-> 1,
                   bytes |-> <<255, 255>>]>>
          [] role = "nolens" -> <<NdpiMagicEntry(endian)>>
          [] OTHER -> <<>>,
     strip |-> StripBytes(IF role \in {"lens20", "lensM", "lensS", "nolens"}
                          THEN "J" ELSE "L", i, 1),
     stripAt |-> IF role = "header" THEN 0 ELSE 0 - 1]

SlideOfRoles(endian, kind, roles) ==
    SlideTiff(endian, kind,
              [i \in 1..Len(roles) |-> SlideDir(roles[i], i - 1, endian)])

\* The sequences of one to MaxDirs of the roles.
RoleSeqs(roles) == UNION {[1..n -> roles] : n \in 1..MaxDirs}

\* SVS files: images, labels, macros and directories without a description
\* ("bare"); and files with a label whose STRIP_OFFSETS names the header of
\* the file ("header").
SvsFiles ==
    {SlideOfRoles(endian, kind, roles) :
        endian \in {"<", ">"}, kind \in {"classic", "bigtiff"},
        roles \in RoleSeqs({"image", "label", "macro", "bare"})}
    \cup {SlideOfRoles("<", "classic", roles) :
            roles \in {<<"image", "header">>, <<"image", "header", "macro">>}}

\* NDPI files: NDPI_SOURCELENS is the float 20.0, the float -1.0, the SHORT
\* FF FF or absent.
NdpiFiles ==
    {SlideOfRoles("<", "ndpi", roles) :
        roles \in RoleSeqs({"lens20", "lensM", "lensS", "nolens"})}

\* Ventana files: a label, an image with an XMP packet, one without.
VentanaFiles ==
    {SlideOfRoles(endian, kind, roles) :
        endian \in {"<", ">"}, kind \in {"classic", "bigtiff"},
        roles \in RoleSeqs({"vlabel", "vlevel", "vthumb"})}

\* Files TiffFile does not take: no endian marker (a JPEG), an unsupported
\* version, a bad BigTIFF suffix, files that end early and a file without
\* directories.
BrokenFiles ==
    {<<255, 216, 255, 224>>,
     <<73, 73, 41, 0, 8, 0, 0, 0>>,
     <<73, 73, 43, 0, 8, 0, 1, 0, 16, 0, 0, 0, 0, 0, 0, 0>>,
     <<77, 77>>,
     <<73, 73, 42, 0, 8, 0, 0, 0, 1, 0>>,
     <<73, 73, 42, 0, 0, 0, 0, 0>>}

(***************************************************************************)
(* State.                                                                  *)
(***************************************************************************)
VARIABLES
    tiff,       \* the bytes of the TIFF file on disk
    fh,         \* the TiffFile object: state "closed", "open" (parsed, no
                \* directory deleted since) or "used"
    call,       \* the last operation on the TIFF file and how it ended
    before,     \* the bytes of the TIFF file when the last delete was called,
                \* its bytes now once the file is closed
    chain0,     \* the out_pointer_offset of each directory of the file as
                \* first opened, in chain order
    deleted,    \* the out_pointer_offset of the directories deleted so far
    ini,        \* Slidedat.ini on disk
    index,      \* the bytes of the MRXS index file on disk
    data,       \* the bytes of each MRXS data file on disk, by file name
    mrxs,       \* the MrxsFile object
    mcall,      \* the last operation on the MrxsFile and how it ended
    mbefore,    \* the files and the level list when delete_level was last
                \* called on this MrxsFile, the files as they are and no
                \* level when it has not been
    orig,       \* the level list and the index file of the slide as it was
                \* at the start
    alive,      \* the places in orig.level_list of the levels not deleted
    outcome,    \* how each format handler ends on the file being dispatched
    tried,      \* the handlers anonymize_slide has run, in order
    result,     \* how anonymize_slide ended, "running" until it has
    target,     \* the file name a handler is given: its extension and
                \* whether Slidedat.ini lies next to it
    hcall,      \* the last handler run and how it ended
    handles,    \* the file handles the last handler opened and left open
    pc,         \* where a delete_level taken step by step is
    np,         \* a call of near_pointer: its arguments and what it returned
    main        \* a run of the command-line driver

tiffVars == <<tiff, fh, call, before, chain0, deleted>>
mrxsVars == <<ini, index, data, mrxs, mcall, mbefore, orig, alive>>
dispatchVars == <<outcome, tried, result>>

handlerVars == <<target, hcall, handles>>

vars == <<tiffVars, mrxsVars, dispatchVars, handlerVars, pc, np, main>>

Closed == [state |-> "closed", fmt_prefix |-> "", bigtiff |-> FALSE,
           ndpi |-> FALSE, directories |-> <<>>]

NoCall == [op |-> "none", err |-> "", dir |-> 0, expected_prefix |-> <<>>]

ChainOf(directories) ==
    [i \in 1..Len(directories) |-> directories[i].out_pointer_offset]

NoMCall ==
    [op |-> "none", err |-> "", layer_name |-> "", level_name |-> "",
     record |-> 0 - 1]

EmptyIni == [bom |-> 0, eol |-> "LF", sections |-> <<>>]

\* No TIFF file, no slide, no dispatch: the parts of the state a
\* specification that is about another part leaves as they are.
TiffIdle ==
    /\ tiff = <<>>
    /\ fh = Closed
    /\ call = NoCall
    /\ before = <<>>
    /\ chain0 = <<>>
    /\ deleted = {}

MrxsIdle ==
    /\ ini = EmptyIni
    /\ index = <<>>
    /\ data = <<>>
    /\ mrxs = NoMrxs
    /\ mcall = NoMCall
    /\ mbefore = [ini |-> EmptyIni, index |-> <<>>, data |-> <<>>,
                  level_list |-> <<>>]
    /\ orig = [level_list |-> <<>>, index |-> <<>>]
    /\ alive = <<>>

DispatchIdle ==
    /\ outcome = <<>>
    /\ tried = <<>>
    /\ result = "idle"

NoHCall == [handler |-> "none", err |-> "", tiffinfo |-> ""]

NoPointer == [ndpi |-> FALSE, base |-> 0, offset |-> 0, called |-> FALSE,
              a |-> 0]

HandlerIdle ==
    /\ target = [ext |-> "", slidedat |-> FALSE]
    /\ hcall = NoHCall
    /\ handles = 0

StepsIdle == pc = "none"

PointerIdle == np = NoPointer

NoMain == [filenames |-> <<>>, debug |-> FALSE, attempted |-> <<>>,
           stderr |-> <<>>, exit_code |-> 0, status |-> "none"]

MainIdle == main = NoMain

TiffInit ==
    /\ \E endian \in {"<", ">"}, kind \in {"classic", "bigtiff", "ndpi"},
          n \in 2..MaxDirs, pattern \in StripPatterns,
          phys \in {"fwd", "rev"}, dataFirst \in BOOLEAN :
          tiff = TiffImage(endian, kind, n, pattern, phys, dataFirst)
    /\ fh = Closed
    /\ call = NoCall
    /\ before = tiff
    /\ chain0 = ChainOf(TiffFile(tiff).directories)
    /\ deleted = {}
    /\ MrxsIdle
    /\ DispatchIdle
    /\ HandlerIdle
    /\ StepsIdle
    /\ PointerIdle
    /\ MainIdle

\* with TiffFile(filename) as fh: the file is opened and parsed.
TiffOpen ==
    /\ fh.state = "closed"
    /\ call.op # "open"
    /\ \E r \in {TiffFile(tiff)} :
          /\ fh' = IF r.err = ""
                   THEN [state |-> "open", fmt_prefix |-> r.tf.fmt_prefix,
                         bigtiff |-> r.tf.bigtiff, ndpi |-> r.tf.ndpi,
                         directories |-> r.directories]
                   ELSE Closed
          /\ call' = [NoCall EXCEPT !.op = "open", !.err = r.err]
    /\ UNCHANGED <<tiff, before, chain0, deleted, mrxsVars, dispatchVars,
                 handlerVars, pc, np, main>>

\* directory.delete(expected_prefix) on directory k of the freshly opened
\* file.
TiffDelete(k, expected_prefix) ==
    /\ fh.state = "open"
    /\ k \in 1..Len(fh.directories)
    /\ \E r \in {TiffDirectory_delete(fh, tiff, fh.directories[k],
                                       expected_prefix)} :
          /\ tiff' = r.file
          /\ before' = tiff
          /\ call' = [op |-> "delete", err |-> r.err, dir |-> k,
                      expected_prefix |-> expected_prefix]
          /\ deleted' = IF r.err = ""
                        THEN deleted \cup
                                {fh.directories[k].out_pointer_offset}
                        ELSE deleted
          /\ fh' = [fh EXCEPT !.state = "used"]
    /\ UNCHANGED <<chain0, mrxsVars, dispatchVars,
                 handlerVars, pc, np, main>>

\* TiffFile.__exit__: the end of the with block.
TiffClose ==
    /\ fh.state \in {"open", "used"}
    /\ fh' = Closed
    /\ call' = [NoCall EXCEPT !.op = "close"]
    /\ before' = tiff
    /\ UNCHANGED <<tiff, chain0, deleted, mrxsVars, dispatchVars,
                 handlerVars, pc, np, main>>

TiffNext ==
    \/ TiffOpen
    \/ \E k \in 1..MaxChain, p \in {<<>>, LZW_CLEARCODE, JPEG_SOI} :
          TiffDelete(k, p)
    \/ TiffClose

SpecTiff == TiffInit /\ [][TiffNext]_vars

(***************************************************************************)
(* Two deletes through the directory objects of one open TiffFile: the     *)
(* second delete uses the in_pointer_offset and out_pointer_offset its     *)
(* directory object got when the file was parsed.                          *)
(***************************************************************************)
\* with TiffFile(filename) as fh, on the file nothing was deleted from.
RetainedOpen ==
    /\ deleted = {}
    /\ TiffOpen

\* directory.delete(expected_prefix) on directory k: the first delete.
RetainedFirst(k, expected_prefix) == TiffDelete(k, expected_prefix)

\* directory.delete(expected_prefix) on another directory k of the same
\* open file, after a first delete that returned.
RetainedSecond(k, expected_prefix) ==
    /\ fh.state = "used"
    /\ call.op = "delete"
    /\ call.err = ""
    /\ Cardinality(deleted) = 1
    /\ k \in 1..Len(fh.directories)
    /\ k # call.dir
    /\ \E r \in {TiffDirectory_delete(fh, tiff, fh.directories[k],
                                       expected_prefix)} :
          /\ tiff' = r.file
          /\ before' = tiff
          /\ call' = [op |-> "delete", err |-> r.err, dir |-> k,
                      expected_prefix |-> expected_prefix]
          /\ deleted' = IF r.err = ""
                        THEN deleted \cup
                                {fh.directories[k].out_pointer_offset}
                        ELSE deleted
    /\ UNCHANGED <<fh, chain0, mrxsVars, dispatchVars,
                 handlerVars, pc, np, main>>

\* The end of the with block.
RetainedClose == TiffClose

RetainedNext ==
    \/ RetainedOpen
    \/ \E k \in 1..MaxChain, p \in {<<>>, LZW_CLEARCODE, JPEG_SOI} :
          RetainedFirst(k, p)
    \/ \E k \in 1..MaxChain, p \in {<<>>, LZW_CLEARCODE, JPEG_SOI} :
          RetainedSecond(k, p)
    \/ RetainedClose

SpecRetained == TiffInit /\ [][RetainedNext]_vars

(***************************************************************************)
(* A slide and the MrxsFile of it.                                         *)
(***************************************************************************)
\* The slides of the model: layer 0 has up to MaxLevels levels, layer 1 up
\* to two; bad is the record (from 1) whose payload does not begin with the
\* JPEG SOI and missing the record whose section the file lacks, 0 for none.
\* Slidedat.ini begins with bom byte-order marks and its lines end as eol.
Slides ==
    {c \in [counts : (1..MaxLevels) \X (0..2), files : 1..2,
            order : {"fwd", "rev"}, bad : 0..2, missing : {0, 2},
            bom : 0..2, eol : {"LF", "CRLF"}] :
        /\ c.bad <= c.counts[1] + c.counts[2]
        /\ c.missing <= c.counts[1] + c.counts[2]}

\* The levels delete_level is called on: every level a slide of the model
\* can have, and one that none has.
LevelCalls ==
    {<<LayerNames[1], LevelName(0, j)>> : j \in 0..(MaxLevels - 1)}
    \cup {<<LayerNames[2], LevelName(1, j)>> : j \in 0..1}
    \cup {<<LayerNames[1], "Label">>}

MrxsInit ==
    /\ \E c \in Slides :
          /\ ini = IniFile(c)
          /\ index = IndexFile(c)
          /\ data = DataFiles(c)
    /\ mrxs = NoMrxs
    /\ mcall = NoMCall
    /\ mbefore = [ini |-> ini, index |-> index, data |-> data,
                  level_list |-> <<>>]
    /\ orig = [level_list |-> MrxsFile(ini).mrxs.level_list, index |-> index]
    /\ alive = [i \in 1..Len(orig.level_list) |-> i]
    /\ TiffIdle
    /\ DispatchIdle
    /\ HandlerIdle
    /\ StepsIdle
    /\ PointerIdle
    /\ MainIdle

\* mrxs = MrxsFile(filename)
MrxsOpen ==
    /\ mcall.op # "open"
    /\ \E r \in {MrxsFile(ini)} :
          /\ mrxs' = r.mrxs
          /\ mcall' = [NoMCall EXCEPT !.op = "open", !.err = r.err]
    /\ mbefore' = [ini |-> ini, index |-> index, data |-> data,
                   level_list |-> <<>>]
    /\ UNCHANGED <<ini, index, data, orig, alive>>
    /\ UNCHANGED <<tiffVars, dispatchVars, handlerVars, pc, np, main>>

RecordOf(level_list, layer_name, level_name) ==
    IF HasLevel(level_list, layer_name, level_name)
    THEN LevelOf(level_list, layer_name, level_name).record
    ELSE 0 - 1

Without(s, i) == SubSeq(s, 1, i - 1) \o SubSeq(s, i + 1, Len(s))

\* mrxs.delete_level(layer_name, level_name)
MrxsDeleteLevel(layer_name, level_name) ==
    /\ mrxs.state = "open"
    /\ \E r \in {delete_level(ini, index, data, mrxs, layer_name,
                              level_name)} :
       \E record \in {RecordOf(mrxs.level_list, layer_name, level_name)} :
          /\ ini' = r.ini
          /\ index' = r.index
          /\ data' = r.data
          /\ mrxs' = r.mrxs
          /\ mcall' = [op |-> "delete_level", err |-> r.err,
                       layer_name |-> layer_name, level_name |-> level_name,
                       record |-> record]
          /\ alive' = IF r.err = "" THEN Without(alive, record + 1) ELSE alive
    /\ mbefore' = [ini |-> ini, index |-> index, data |-> data,
                   level_list |-> mrxs.level_list]
    /\ UNCHANGED orig
    /\ UNCHANGED <<tiffVars, dispatchVars, handlerVars, pc, np, main>>

MrxsNext ==
    \/ MrxsOpen
    \/ \E c \in LevelCalls : MrxsDeleteLevel(c[1], c[2])

SpecMrxs == MrxsInit /\ [][MrxsNext]_vars

(***************************************************************************)
(* anonymize_slide: the dispatch over the format handlers.  A handler ends *)
(* with "ok" or with the exception it raises; which it is depends on the   *)
(* file, so each file is a choice of one outcome per handler.              *)
(***************************************************************************)
format_handlers ==
    <<"do_ventana_tif", "do_aperio_svs", "do_hamamatsu_ndpi",
      "do_3dhistech_mrxs">>

Outcomes == {"ok", "UnrecognizedFile", "IOError", "struct.error"}

\* A dispatch that goes on to the next handler after any exception.
Continues_AnyException(o) == o # "ok"

\* except UnrecognizedFile: pass
Continues(o) == o = "UnrecognizedFile"

DispatchInit ==
    /\ outcome \in [{format_handlers[i] : i \in 1..Len(format_handlers)}
                       -> Outcomes]
    /\ tried = <<>>
    /\ result = "running"
    /\ TiffIdle
    /\ MrxsIdle
    /\ HandlerIdle
    /\ StepsIdle
    /\ PointerIdle
    /\ MainIdle

\* One turn of the loop of anonymize_slide: handler(filename), then break
\* or, on UnrecognizedFile, the next handler.
DispatchHandler ==
    /\ result = "running"
    /\ Len(tried) < Len(format_handlers)
    /\ \E handler \in {format_handlers[Len(tried) + 1]} :
          /\ tried' = Append(tried, handler)
          /\ result' = IF Continues(outcome[handler]) THEN "running"
                       ELSE outcome[handler]
    /\ UNCHANGED outcome
    /\ UNCHANGED <<tiffVars, mrxsVars, handlerVars, pc, np, main>>

\* The else of the loop: raise IOError('Unrecognized file type').
DispatchElse ==
    /\ result = "running"
    /\ Len(tried) = Len(format_handlers)
    /\ result' = "Unrecognized file type"
    /\ UNCHANGED <<outcome, tried>>
    /\ UNCHANGED <<tiffVars, mrxsVars, handlerVars, pc, np, main>>

DispatchNext == DispatchHandler \/ DispatchElse

SpecDispatch == DispatchInit /\ [][DispatchNext]_vars

(***************************************************************************)
(* The format handlers run on a file.  The target is a TIFF file, or the   *)
(* .mrxs file of a slide (a JPEG image) with the slide's files next to it. *)
(***************************************************************************)
MrxsImage == <<255, 216, 255, 224>>

HandlerStart ==
    /\ fh = Closed
    /\ call = NoCall
    /\ before = tiff
    /\ chain0 = <<>>
    /\ deleted = {}
    /\ mrxs = NoMrxs
    /\ mcall = NoMCall
    /\ mbefore = [ini |-> ini, index |-> index, data |-> data,
                  level_list |-> <<>>]
    /\ orig = [level_list |-> <<>>, index |-> <<>>]
    /\ alive = <<>>
    /\ hcall = NoHCall
    /\ handles = 0
    /\ DispatchIdle
    /\ StepsIdle
    /\ PointerIdle
    /\ MainIdle

HandlerInit ==
    /\ \/ /\ tiff \in SvsFiles \cup NdpiFiles \cup VentanaFiles
                      \cup BrokenFiles
          /\ target = [ext |-> ".tif", slidedat |-> FALSE]
          /\ ini = EmptyIni
          /\ index = <<>>
          /\ data = <<>>
       \/ /\ tiff = MrxsImage
          /\ target = [ext |-> ".mrxs", slidedat |-> TRUE]
          /\ \E c \in {s \in Slides : s.eol = "CRLF"} :
                /\ ini = IniFile(c)
                /\ index = IndexFile(c)
                /\ data = DataFiles(c)
       \/ /\ tiff = MrxsImage
          /\ target = [ext |-> ".mrxs", slidedat |-> FALSE]
          /\ ini = EmptyIni
          /\ index = <<>>
          /\ data = <<>>
    /\ HandlerStart

\* A TIFF handler has run on the target and ended as r.
TiffHandled(handler, tiffinfo, r) ==
    /\ tiff' = r.file
    /\ before' = tiff
    /\ mbefore' = [ini |-> ini, index |-> index, data |-> data,
                   level_list |-> <<>>]
    /\ hcall' = [handler |-> handler, err |-> r.err, tiffinfo |-> tiffinfo]
    /\ handles' = r.open
    /\ UNCHANGED <<fh, call, chain0, deleted, ini, index, data, mrxs, mcall,
                   orig, alive, dispatchVars, target, pc, np, main>>

\* do_ventana_tif(filename)
DoVentanaTif(tiffinfo) ==
    \E r \in {do_ventana_tif(tiff, tiffinfo)} :
        TiffHandled("do_ventana_tif", tiffinfo, r)

\* do_aperio_svs(filename)
DoAperioSvs ==
    \E r \in {do_aperio_svs(tiff)} : TiffHandled("do_aperio_svs", "", r)

\* do_hamamatsu_ndpi(filename)
DoHamamatsuNdpi ==
    \E r \in {do_hamamatsu_ndpi(tiff)} :
        TiffHandled("do_hamamatsu_ndpi", "", r)

\* do_3dhistech_mrxs(filename)
Do3dhistechMrxs ==
    /\ \E r \in {do_3dhistech_mrxs(target.ext, target.slidedat, ini, index,
                                   data)} :
          /\ ini' = r.ini
          /\ index' = r.index
          /\ data' = r.data
          /\ hcall' = [handler |-> "do_3dhistech_mrxs", err |-> r.err,
                       tiffinfo |-> ""]
    /\ before' = tiff
    /\ mbefore' = [ini |-> ini, index |-> index, data |-> data,
                   level_list |-> <<>>]
    /\ handles' = 0
    /\ UNCHANGED <<tiff, fh, call, chain0, deleted, mrxs, mcall, orig, alive,
                   dispatchVars, target, pc, np, main>>

HandlerNext ==
    \/ \E tiffinfo \in TiffinfoOutcomes : DoVentanaTif(tiffinfo)
    \/ DoAperioSvs
    \/ DoHamamatsuNdpi
    \/ Do3dhistechMrxs

SpecHandler == HandlerInit /\ [][HandlerNext]_vars

(***************************************************************************)
(* near_pointer called on a base and an offset.  The bases lie at both     *)
(* ends of the segments 0 to MaxSegments, the offsets at both ends and in  *)
(* the middle of a segment, and every offset is below SegSize, as a value  *)
(* read from a 32-bit field is below 1 << 32.                              *)
(***************************************************************************)
PointerBases ==
    {k * SegSize + d : k \in 0..MaxSegments,
                       d \in {0, 1, 2, SegSize - 2, SegSize - 1}}

PointerOffsets ==
    {0, 1, 2, 3, SegSize \div 2, SegSize - 3, SegSize - 2, SegSize - 1}

PointerInit ==
    /\ np \in [ndpi : BOOLEAN, base : PointerBases, offset : PointerOffsets,
               called : {FALSE}, a : {0}]
    /\ TiffIdle
    /\ MrxsIdle
    /\ DispatchIdle
    /\ HandlerIdle
    /\ StepsIdle
    /\ MainIdle

\* fh.near_pointer(base, offset)
NearPointer ==
    /\ ~np.called
    /\ np' = [np EXCEPT
                 !.called = TRUE,
                 !.a = near_pointer([fmt_prefix |-> "<", bigtiff |-> FALSE,
                                     ndpi |-> np.ndpi], np.base, np.offset)]
    /\ UNCHANGED <<tiffVars, mrxsVars, dispatchVars, handlerVars, pc, main>>

PointerNext == NearPointer

SpecPointer == PointerInit /\ [][PointerNext]_vars

(***************************************************************************)
(* overwrite_entry called on the entries of an open file.  A file has one  *)
(* directory with one ASCII entry (IMAGE_DESCRIPTION) or one BYTE entry    *)
(* (XMLPACKET) before its strip entries; the value lies out of line, or    *)
(* inline in a little-endian file, where the value_offset field the value  *)
(* fills reads as a small number.                                          *)
(***************************************************************************)
EntryValues ==
    {[type |-> ASCII, bytes |-> <<72, 105, 32, 33, 63, 0>>],
     [type |-> ASCII, bytes |-> <<72, 105, 200, 33, 255, 0>>],
     [type |-> BYTE, bytes |-> <<1, 2, 3, 4, 5, 6>>],
     [type |-> BYTE, bytes |-> <<1, 2, 200, 4, 5, 255>>]}

InlineValues ==
    {[type |-> ASCII, bytes |-> <<48, 0>>],
     [type |-> ASCII, bytes |-> <<44, 0, 0>>],
     [type |-> BYTE, bytes |-> <<40, 0>>]}

EntryTag(type) == IF type = ASCII THEN IMAGE_DESCRIPTION ELSE XMLPACKET

EntryFile(endian, v) ==
    SlideTiff(endian, "classic",
              <<[pre |-> <<[tag |-> EntryTag(v.type), type |-> v.type,
                            count |-> Len(v.bytes), bytes |-> v.bytes]>>,
                 post |-> <<>>,
                 strip |-> StripBytes("L", 0, 1),
                 stripAt |-> 0 - 1]>>)

EntryFiles ==
    {EntryFile(endian, v) : endian \in {"<", ">"}, v \in EntryValues}
    \cup {EntryFile("<", v) : v \in InlineValues}

\* The byte strings overwrite_entry is given: empty, one byte below and one
\* above 0x7F, and five, six and seven bytes.
Payloads ==
    {<<>>, <<65>>, <<200>>, <<65, 66, 67, 68, 69>>,
     <<65, 66, 67, 68, 69, 70>>, <<65, 66, 67, 68, 69, 70, 71>>}

EntryInit ==
    /\ tiff \in EntryFiles
    /\ fh = Closed
    /\ call = NoCall
    /\ before = tiff
    /\ chain0 = ChainOf(TiffFile(tiff).directories)
    /\ deleted = {}
    /\ MrxsIdle
    /\ DispatchIdle
    /\ HandlerIdle
    /\ StepsIdle
    /\ PointerIdle
    /\ MainIdle

\* fh.directories[k - 1].entries[tag].overwrite_entry(byte_string) on the
\* open file.
OverwriteEntry(k, tag, byte_string) ==
    /\ fh.state \in {"open", "used"}
    /\ k \in 1..Len(fh.directories)
    /\ HasTag(fh.directories[k], tag)
    /\ \E r \in {overwrite_entry(fh, tiff, EntryOf(fh.directories[k], tag),
                                  byte_string)} :
          /\ tiff' = r.file
          /\ before' = tiff
          /\ call' = [op |-> "overwrite_entry", err |-> r.err, dir |-> k,
                      expected_prefix |-> <<>>, tag |-> tag,
                      byte_string |-> byte_string]
          /\ fh' = [fh EXCEPT !.state = "used"]
    /\ UNCHANGED <<chain0, deleted, mrxsVars, dispatchVars, handlerVars,
                 pc, np, main>>

EntryNext ==
    \/ TiffOpen
    \/ \E k \in 1..MaxChain, tag \in {IMAGE_DESCRIPTION, XMLPACKET},
          byte_string \in Payloads :
          OverwriteEntry(k, tag, byte_string)
    \/ TiffClose

SpecEntry == EntryInit /\ [][EntryNext]_vars

(***************************************************************************)
(* delete_level taken step by step: pc is the statement the call is at,    *)
(* "zero" before self._zero_record(record), "index" before                 *)
(* self._delete_index_record(record), "ini" before the edits of the parser *)
(* and self._write(), "done" once it has returned and RaisedAt of the      *)
(* statement that raised once one has.  The process can stop in any state. *)
(* The index file of a slide is whole or has one of the IndexDamages.      *)
(***************************************************************************)
\* A delete_level that writes Slidedat.ini before it compacts the index.
NextStage_IniBeforeIndex(stage) ==
    CASE stage = "zero" -> "ini"
      [] stage = "ini" -> "index"
      [] stage = "index" -> "done"

\* The statement of delete_level after the statement stage.
NextStage(stage) ==
    CASE stage = "zero" -> "index"
      [] stage = "index" -> "ini"
      [] stage = "ini" -> "done"

\* Where delete_level is once the statement stage has raised.
RaisedAt(stage) ==
    CASE stage = "zero" -> "raised in _zero_record"
      [] stage = "index" -> "raised in _delete_index_record"
      [] OTHER -> "raised"

\* The slides delete_level is stepped through on: Slidedat.ini has CRLF
\* line endings and one byte-order mark.
StepSlides == {c \in Slides : c.eol = "CRLF" /\ c.bom = 1}

StepsInit ==
    /\ \E c \in StepSlides, damage \in IndexDamages :
          /\ ini = IniFile(c)
          /\ index = DamagedIndex(c, damage)
          /\ data = DataFiles(c)
    /\ mrxs = NoMrxs
    /\ mcall = NoMCall
    /\ mbefore = [ini |-> ini, index |-> index, data |-> data,
                  level_list |-> <<>>]
    /\ orig = [level_list |-> MrxsFile(ini).mrxs.level_list, index |-> index]
    /\ alive = [i \in 1..Len(orig.level_list) |-> i]
    /\ pc = "none"
    /\ TiffIdle
    /\ DispatchIdle
    /\ HandlerIdle
    /\ PointerIdle
    /\ MainIdle

\* MrxsFile(filename), once.
StepOpen ==
    /\ pc = "none"
    /\ mrxs.state = "none"
    /\ MrxsOpen

\* delete_level(layer_name, level_name) is called: the lookup of the level.
StepBegin(layer_name, level_name) ==
    /\ mrxs.state = "open"
    /\ pc \in {"none", "done"}
    /\ mbefore' = [ini |-> ini, index |-> index, data |-> data,
                   level_list |-> mrxs.level_list]
    /\ mcall' = [op |-> "delete_level",
                 err |-> IF HasLevel(mrxs.level_list, layer_name, level_name)
                         THEN "" ELSE "KeyError",
                 layer_name |-> layer_name, level_name |-> level_name,
                 record |-> RecordOf(mrxs.level_list, layer_name,
                                     level_name)]
    /\ pc' = IF HasLevel(mrxs.level_list, layer_name, level_name)
             THEN "zero" ELSE RaisedAt("lookup")
    /\ UNCHANGED <<ini, index, data, mrxs, orig, alive>>
    /\ UNCHANGED <<tiffVars, dispatchVars, handlerVars, np, main>>

\* self._zero_record(record)
StepZero ==
    /\ pc = "zero"
    /\ \E z \in {zero_record(data, get_data_location(index, mrxs.datafiles,
                                                     mcall.record))} :
          /\ data' = z.data
          /\ mcall' = [mcall EXCEPT !.err = z.err]
          /\ pc' = IF z.err = "" THEN NextStage(pc) ELSE RaisedAt(pc)
    /\ UNCHANGED <<ini, index, mrxs, mbefore, orig, alive>>
    /\ UNCHANGED <<tiffVars, dispatchVars, handlerVars, np, main>>

\* self._delete_index_record(record)
StepIndex ==
    /\ pc = "index"
    /\ \E x \in {delete_index_record(index, Len(mrxs.level_list),
                                      mcall.record)} :
          /\ index' = x.index
          /\ mcall' = [mcall EXCEPT !.err = x.err]
          /\ pc' = IF x.err = "" THEN NextStage(pc) ELSE RaisedAt(pc)
    /\ UNCHANGED <<ini, data, mrxs, mbefore, orig, alive>>
    /\ UNCHANGED <<tiffVars, dispatchVars, handlerVars, np, main>>

\* The rest of delete_level: the edits of the parser, self._write() and
\* self._make_levels().
StepIni ==
    /\ pc = "ini"
    /\ mcall.record < Len(mrxs.level_list)
    /\ \E r \in {DeleteIndexedOf(ini, index, data, mrxs,
                                  EditDat(mrxs.dat, mrxs.level_list,
                                          mrxs.level_list[mcall.record
                                                          + 1]))} :
          /\ ini' = r.ini
          /\ mrxs' = r.mrxs
          /\ mcall' = [mcall EXCEPT !.err = r.err]
          /\ pc' = IF r.err = "" THEN NextStage(pc) ELSE RaisedAt(pc)
          /\ alive' = IF r.err = "" THEN Without(alive, mcall.record + 1)
                        ELSE alive
    /\ UNCHANGED <<index, data, mbefore, orig>>
    /\ UNCHANGED <<tiffVars, dispatchVars, handlerVars, np, main>>

StepsNext ==
    \/ StepOpen
    \/ \E c \in LevelCalls : StepBegin(c[1], c[2])
    \/ StepZero
    \/ StepIndex
    \/ StepIni

SpecMrxsSteps == StepsInit /\ [][StepsNext]_vars

(***************************************************************************)
(* _main: the command-line driver.  A file name is the outcome each format *)
(* handler has on the file; main.attempted lists the places of the file    *)
(* names anonymize_slide was called on, main.stderr the lines written to   *)
(* stderr, main.status is "running" in the loop, "exited" after sys.exit   *)
(* and "raised" when an exception has left _main.                          *)
(***************************************************************************)
\* anonymize_slide(filename) from handler i on: "ok" or the exception.
RECURSIVE AnonymizeFrom(_, _)
AnonymizeFrom(o, i) ==
    IF i > Len(format_handlers) THEN "Unrecognized file type"
    ELSE IF Continues(o[format_handlers[i]]) THEN AnonymizeFrom(o, i + 1)
    ELSE o[format_handlers[i]]

anonymize_slide(o) == AnonymizeFrom(o, 1)

\* A file that the handlers before handler i do not recognize, on which
\* handler i ends as e and the handlers after it would succeed.
FileOf(i, e) ==
    [h \in {format_handlers[k] : k \in 1..Len(format_handlers)} |->
        IF \E k \in 1..(i - 1) : format_handlers[k] = h
        THEN "UnrecognizedFile"
        ELSE IF i <= Len(format_handlers) /\ format_handlers[i] = h THEN e
        ELSE "ok"]

MainFiles ==
    {FileOf(i, e) : i \in 1..Len(format_handlers),
                    e \in Outcomes \ {"UnrecognizedFile"}}
    \cup {FileOf(Len(format_handlers) + 1, "ok")}

\* An exit code that the last file alone decides.
ExitCodeAfter_LastFile(exit_code, r) == IF r = "ok" THEN 0 ELSE 1

\* exit_code after the loop body on a file anonymize_slide ended on as r.
ExitCodeAfter(exit_code, r) == IF r = "ok" THEN exit_code ELSE 1

MainInit ==
    /\ \E n \in 1..MaxFiles, debug \in BOOLEAN :
       \E filenames \in [1..n -> MainFiles] :
          main = [filenames |-> filenames, debug |-> debug,
                  attempted |-> <<>>, stderr |-> <<>>, exit_code |-> 0,
                  status |-> "running"]
    /\ TiffIdle
    /\ MrxsIdle
    /\ DispatchIdle
    /\ HandlerIdle
    /\ StepsIdle
    /\ PointerIdle

\* One turn of the loop of _main: anonymize_slide(filename) and the except
\* clause.
MainFile ==
    /\ main.status = "running"
    /\ Len(main.attempted) < Len(main.filenames)
    /\ \E i \in {Len(main.attempted) + 1} :
       \E r \in {anonymize_slide(main.filenames[i])} :
          main' = IF r # "ok" /\ main.debug
                  THEN [main EXCEPT !.attempted = Append(@, i),
                                    !.status = "raised"]
                  ELSE [main EXCEPT
                           !.attempted = Append(@, i),
                           !.stderr = IF r = "ok" THEN @
                                      ELSE Append(@, <<i, r>>),
                           !.exit_code = ExitCodeAfter(@, r)]
    /\ UNCHANGED <<tiffVars, mrxsVars, dispatchVars, handlerVars, pc, np>>

\* sys.exit(exit_code)
MainExit ==
    /\ main.status = "running"
    /\ Len(main.attempted) = Len(main.filenames)
    /\ main' = [main EXCEPT !.status = "exited"]
    /\ UNCHANGED <<tiffVars, mrxsVars, dispatchVars, handlerVars, pc, np>>

MainNext == MainFile \/ MainExit

SpecMain == MainInit /\ [][MainNext]_vars

(***************************************************************************)
(* Claims about TiffDirectory.delete.                                      *)
(***************************************************************************)
\* The directories of the file as first opened that no delete has removed.
Remaining == SelectSeq(chain0, LAMBDA o : o \notin deleted)

\* C1: when the file is re-opened after any sequence of deletes, each made
\* on a freshly opened file, and a directory remains, the open succeeds and
\* the chain it reads is the original chain without the deleted directories,
\* in the original order.
C1_ReopenYieldsRemaining ==
    (call.op = "open" /\ Remaining # <<>>)
        => (call.err = "" /\ ChainOf(fh.directories) = Remaining)

\* The directory the last delete was called on, and its strips as the
\* directory listed them when delete was called: the file position and the
\* length of each strip.
DeletedDir == fh.directories[call.dir]
StripsOf(offsets, lengths) ==
    [i \in 1..Min(Len(offsets), Len(lengths)) |->
        [pos |-> near_pointer(fh, DeletedDir.out_pointer_offset, offsets[i]),
         len |-> lengths[i]]]
DeletedStrips ==
    StripsOf(value(fh, before, EntryOf(DeletedDir, STRIP_OFFSETS)).items,
             value(fh, before, EntryOf(DeletedDir, STRIP_BYTE_COUNTS)).items)
InStrip(o, s) == s.pos <= o /\ o < s.pos + s.len

\* C2: after delete returns normally, every byte of every strip the
\* directory lists is zero.
C2_StripsZeroed ==
    (call.op = "delete" /\ call.err = "")
        => \A strips \in {DeletedStrips} :
              \A i \in 1..Len(strips) :
                 /\ strips[i].pos + strips[i].len <= Len(tiff)
                 /\ \A o \in 0..(Len(tiff) - 1) :
                       InStrip(o, strips[i]) => tiff[o + 1] = 0

\* The first strip of the deleted directory that does not begin with the
\* expected prefix, in the file as it was when delete was called.
Mismatch(s) ==
    FileRead(before, s.pos, Len(call.expected_prefix)) # call.expected_prefix
FirstMismatch(strips) ==
    CHOOSE i \in 1..Len(strips) :
        Mismatch(strips[i]) /\ \A j \in 1..(i - 1) : ~Mismatch(strips[j])

PrefixFailure ==
    call.op = "delete" /\ call.err = "Unexpected data in image strip"

\* C3 as claimed: when delete fails on a strip's prefix, the file is
\* byte-identical to its state before the call.
C3_PrefixFailureWritesNothing == PrefixFailure => tiff = before

\* C3 as amended: when delete fails on a strip's prefix, the file differs
\* from its state before the call exactly in the strips before the first
\* mismatching one, which are zeroed: that strip, the strips after it and
\* the chain pointer are not written.
C3_PrefixFailureKeepsRest ==
    PrefixFailure =>
        \A strips \in {DeletedStrips} : \A m \in {FirstMismatch(strips)} :
            /\ Len(tiff) = Len(before)
            /\ \A o \in 0..(Len(tiff) - 1) :
                  tiff[o + 1] =
                     IF \E i \in 1..(m - 1) : InStrip(o, strips[i])
                     THEN 0 ELSE before[o + 1]

\* The case of C3: a directory of two strips of which the first matched
\* and was zeroed before the second failed the check.
C3_Witness ==
    /\ PrefixFailure
    /\ FirstMismatch(DeletedStrips) = 2
    /\ tiff # before

\* The pointer field the file's reader read to reach the deleted directory:
\* the header's pointer is read before NDPI mode is known, every other
\* pointer after.
PointerWidthAsRead ==
    IF DeletedDir.number = 0
    THEN (IF fh.bigtiff THEN 8 ELSE 4)
    ELSE fmt_size(fh, <<"D">>)

\* C4: delete leaves the file's length alone and changes no byte outside the
\* deleted directory's strips and the pointer field at in_pointer_offset, of
\* the width it was read with.
C4_DeleteFrame ==
    call.op = "delete" =>
        \A strips \in {DeletedStrips} : \A w \in {PointerWidthAsRead} :
            /\ Len(tiff) = Len(before)
            /\ \A o \in 0..(Len(tiff) - 1) :
                  tiff[o + 1] # before[o + 1] =>
                     \/ /\ DeletedDir.in_pointer_offset <= o
                        /\ o < DeletedDir.in_pointer_offset + w
                     \/ \E i \in 1..Len(strips) : InStrip(o, strips[i])

(***************************************************************************)
(* Claims about MrxsFile.delete_level.                                     *)
(***************************************************************************)
\* delete_level was called on a level the MrxsFile has.
LevelCalled == mcall.op = "delete_level" /\ mcall.record >= 0

\* The level the last delete_level was called on and where the index file
\* placed its payload when it was called.
CalledLevel == mbefore.level_list[mcall.record + 1]
CalledLoc == get_data_location(mbefore.index, mrxs.datafiles, mcall.record)

BeginsWithSoi(loc) ==
    FileRead(mbefore.data[loc.path], loc.position, Len(JPEG_SOI)) = JPEG_SOI
TailAligned(loc) ==
    Len(mbefore.data[loc.path]) = loc.position + loc.size
Truncated(loc) ==
    data[loc.path] = SubSeq(mbefore.data[loc.path], 1, loc.position)

\* C5: delete_level on a level whose payload begins with FF D8 and does not
\* end the data file completes without error, leaves the payload's bytes
\* zero and the length of the data file as it was.
C5_ZeroesPayloadInPlace ==
    LevelCalled => \A loc \in {CalledLoc} :
        (loc.err = "" /\ BeginsWithSoi(loc) /\ ~TailAligned(loc)) =>
            /\ mcall.err = ""
            /\ Len(data[loc.path]) = Len(mbefore.data[loc.path])
            /\ \A o \in loc.position..(loc.position + loc.size - 1) :
                  data[loc.path][o + 1] = 0

\* C6 as claimed: the data file is truncated to position exactly when its
\* length was position + size, whatever the payload begins with.
C6_TruncatedIffTailAligned ==
    LevelCalled => \A loc \in {CalledLoc} :
        loc.err = "" => (Truncated(loc) <=> TailAligned(loc))

\* C6 as amended: the data file is truncated to position exactly when its
\* length was position + size and the payload begins with FF D8, and then
\* nothing else of it changes; a payload that ends the file and does not
\* begin with FF D8 fails the call and leaves the data files as they were.
C6_TruncatedIffTailAlignedJpeg ==
    LevelCalled => \A loc \in {CalledLoc} :
        loc.err = "" =>
            /\ Truncated(loc) <=> (TailAligned(loc) /\ BeginsWithSoi(loc))
            /\ (TailAligned(loc) /\ ~BeginsWithSoi(loc)) =>
                  /\ mcall.err = "Unexpected data in nonhier image"
                  /\ data = mbefore.data
            /\ \A name \in DOMAIN data :
                  name # loc.path => data[name] = mbefore.data[name]

\* The case of C6: a payload that ended its data file was cut off.
C6_Witness ==
    /\ LevelCalled
    /\ mcall.err = ""
    /\ TailAligned(CalledLoc)
    /\ Len(data[CalledLoc.path]) = CalledLoc.position
    /\ CalledLoc.size > 0

\* C7: the level list of an MrxsFile, and the list a new MrxsFile builds
\* from Slidedat.ini, is the original list without the deleted levels: the
\* levels left keep their layer name, name and order, and their records are
\* 0..n-1.
C7_LevelListIsOriginalWithoutDeleted ==
    mrxs.state = "open" =>
        /\ Len(mrxs.level_list) = Len(alive)
        /\ \A i \in 1..Len(mrxs.level_list) :
              /\ mrxs.level_list[i].layer_name
                    = orig.level_list[alive[i]].layer_name
              /\ mrxs.level_list[i].name = orig.level_list[alive[i]].name
              /\ mrxs.level_list[i].record = i - 1
              /\ mrxs.level_list[i].record
                    = orig.level_list[alive[i]].record
                         - Cardinality({d \in 1..alive[i] :
                              \A k \in 1..Len(alive) : alive[k] # d})
        /\ MrxsFile(ini).mrxs.level_list = mrxs.level_list

\* The case of C7: two levels were deleted, one of them before levels of
\* both layers that are left.
C7_Witness ==
    /\ LevelCalled
    /\ mcall.err = ""
    /\ Len(alive) = Len(orig.level_list) - 2
    /\ \E i, k \in 1..Len(alive) :
          /\ alive[i] > i
          /\ mrxs.level_list[i].layer_id = 0
          /\ mrxs.level_list[k].layer_id = 1

\* The slot of record i in the nonhier table of the index file f.
Slot(f, i) ==
    FileRead(f, read_int32(f, MRXS_NONHIER_ROOT_OFFSET).v + 4 * i, 4)

\* C8: after delete_level of record r among n levels the slots r..n-2 of
\* the index table hold what the slots r+1..n-1 held, every other byte of
\* the index file is as it was, and each level left finds through its new
\* record the list head and payload location it had at the start.
C8_IndexTableCompacted ==
    (LevelCalled /\ mcall.err = "") =>
        /\ Len(index) = Len(mbefore.index)
        /\ \A i \in 0..(Len(mbefore.level_list) - 1) :
              Slot(index, i) =
                 IF mcall.record <= i /\ i <= Len(mbefore.level_list) - 2
                 THEN Slot(mbefore.index, i + 1)
                 ELSE Slot(mbefore.index, i)
        /\ \A o \in 0..(Len(index) - 1) :
              index[o + 1] # mbefore.index[o + 1] =>
                 \E i \in mcall.record..(Len(mbefore.level_list) - 2) :
                    /\ MRXS_NONHIER_ROOT_OFFSET + 4 + 4 * i <= o
                    /\ o < MRXS_NONHIER_ROOT_OFFSET + 4 + 4 * i + 4
        /\ (mcall.record = Len(mbefore.level_list) - 1 =>
               index = mbefore.index)
        /\ \A i \in 1..Len(mrxs.level_list) :
              /\ Slot(index, mrxs.level_list[i].record)
                    = Slot(orig.index, alive[i] - 1)
              /\ get_data_location(index, mrxs.datafiles,
                                   mrxs.level_list[i].record)
                    = get_data_location(orig.index, mrxs.datafiles,
                                        alive[i] - 1)

\* The case of C8: a second deletion that moved slots of the index table.
C8_Witness ==
    /\ LevelCalled
    /\ mcall.err = ""
    /\ Len(alive) = Len(orig.level_list) - 2
    /\ mcall.record < Len(mbefore.level_list) - 1
    /\ index # mbefore.index

\* The level of layer layer_id a key of [HIERARCHICAL] belongs to, -1 for a
\* key of no level of the layer.
LevelOfKey(key, layer_id) ==
    IF Len(key) >= 4 /\ SubSeq(key, 1, 3) = <<"NONHIER", Dec(layer_id), "VAL">>
    THEN ParseInt(key[4])
    ELSE 0 - 1

\* What C9 says an item of [HIERARCHICAL] has become once level j of layer
\* layer_id is deleted from the parser b.
RenumberedItem(b, layer_id, j, it, k) ==
    IF k > j
    THEN [key |-> KeyReplace(it.key, KeyPrefix(layer_id, k),
                             KeyPrefix(layer_id, k - 1)),
          value |-> IF it.key = KeyPrefix(layer_id, k) \o <<"SECTION">>
                    THEN get(b, MRXS_HIERARCHICAL,
                             KeyPrefix(layer_id, k - 1) \o <<"SECTION">>)
                    ELSE it.value]
    ELSE IF it.key = LayerKey(layer_id, "COUNT")
    THEN [key |-> it.key, value |-> Dec(ParseInt(it.value) - 1)]
    ELSE it

ItemSet(its) == {its[i] : i \in 1..Len(its)}

\* The section the level k of layer layer_id names in the parser b.
SectionOfLevel(b, layer_id, k) ==
    get(b, MRXS_HIERARCHICAL, KeyPrefix(layer_id, k) \o <<"SECTION">>)

\* C9 for the deletion of level j of a layer of count levels, b being
\* Slidedat.ini before the call and a after it.
IniRenumbered(b, a, layer_id, j, count) ==
    /\ ItemSet(items(a, MRXS_HIERARCHICAL)) =
          {RenumberedItem(b, layer_id, j, it, LevelOfKey(it.key, layer_id)) :
              it \in {x \in ItemSet(items(b, MRXS_HIERARCHICAL)) :
                         LevelOfKey(x.key, layer_id) # j}}
    /\ Len(items(a, MRXS_HIERARCHICAL))
          = Cardinality(ItemSet(items(a, MRXS_HIERARCHICAL)))
    /\ \A k \in j..(count - 2) :
          /\ has_section(a, SectionOfLevel(b, layer_id, k))
                <=> has_section(b, SectionOfLevel(b, layer_id, k + 1))
          /\ items(a, SectionOfLevel(b, layer_id, k))
                = items(b, SectionOfLevel(b, layer_id, k + 1))
    /\ ~has_section(a, SectionOfLevel(b, layer_id, count - 1))
    /\ \A i \in 1..Len(b.sections) :
          (/\ b.sections[i].name # MRXS_HIERARCHICAL
           /\ \A k \in j..(count - 1) :
                 b.sections[i].name # SectionOfLevel(b, layer_id, k))
             => /\ has_section(a, b.sections[i].name)
                /\ items(a, b.sections[i].name) = b.sections[i].items
    /\ \A i \in 1..Len(a.sections) :
          \/ has_section(b, a.sections[i].name)
          \/ \E k \in j..(count - 2) :
                a.sections[i].name = SectionOfLevel(b, layer_id, k)
    /\ getint(a, MRXS_HIERARCHICAL, LayerKey(layer_id, "COUNT")) = count - 1

\* C9: after delete_level of level j of layer i, [HIERARCHICAL] holds the
\* keys of the levels before j as they were, the keys of each later level k
\* under the names of level k-1 with their values, the _SECTION key with the
\* section name level k-1 had, and NONHIER_i_COUNT one less; the contents of
\* each later level's section are under the section name of the level
\* before it, those of the deleted level are gone, and every other key and
\* section is as it was.
C9_IniRenumbered ==
    (LevelCalled /\ mcall.err = "") =>
        /\ IniRenumbered(read_file(mbefore.ini), read_file(ini),
                         CalledLevel.layer_id, CalledLevel.id,
                         getint(read_file(mbefore.ini), MRXS_HIERARCHICAL,
                                LayerKey(CalledLevel.layer_id, "COUNT")))
        /\ mrxs.dat = read_file(ini)

\* The case of C9: the first of three levels of layer 0 was deleted, with
\* levels in layer 1.
C9_Witness ==
    /\ LevelCalled
    /\ mcall.err = ""
    /\ CalledLevel.layer_id = 0
    /\ CalledLevel.id = 0
    /\ \E i \in 1..Len(mrxs.level_list) :
          mrxs.level_list[i].layer_id = 0 /\ mrxs.level_list[i].id = 1
    /\ \E i \in 1..Len(mrxs.level_list) : mrxs.level_list[i].layer_id = 1

(***************************************************************************)
(* Claims about anonymize_slide.                                           *)
(***************************************************************************)
\* The first handler, in the order Ventana, SVS, NDPI, MRXS, that does not
\* raise UnrecognizedFile on the file, 5 when all four raise it.
FirstAccepting ==
    CHOOSE i \in 1..5 :
        /\ \A k \in 1..(i - 1) :
              outcome[<<"do_ventana_tif", "do_aperio_svs",
                        "do_hamamatsu_ndpi", "do_3dhistech_mrxs">>[k]]
                 = "UnrecognizedFile"
        /\ i < 5 =>
              outcome[<<"do_ventana_tif", "do_aperio_svs",
                        "do_hamamatsu_ndpi", "do_3dhistech_mrxs">>[i]]
                 # "UnrecognizedFile"

\* C10: the handlers run are the first handlers of the order Ventana, SVS,
\* NDPI, MRXS; every one of them but the last raised UnrecognizedFile; the
\* dispatch ends with the outcome of the first handler that does not raise
\* it, having run no handler after it, and with 'Unrecognized file type'
\* when all four raise it.
C10_DispatchInOrder ==
    /\ tried = SubSeq(<<"do_ventana_tif", "do_aperio_svs",
                        "do_hamamatsu_ndpi", "do_3dhistech_mrxs">>,
                      1, Len(tried))
    /\ \A i \in 1..(Len(tried) - 1) : outcome[tried[i]] = "UnrecognizedFile"
    /\ result = "running" =>
          \A i \in 1..Len(tried) : outcome[tried[i]] = "UnrecognizedFile"
    /\ result # "running" =>
          IF FirstAccepting = 5
          THEN Len(tried) = 4 /\ result = "Unrecognized file type"
          ELSE /\ Len(tried) = FirstAccepting
               /\ result = outcome[tried[FirstAccepting]]

\* The case of C10: two handlers raised UnrecognizedFile, the third failed
\* with an I/O error and the fourth, which would have succeeded, did not run.
C10_Witness ==
    /\ result = "IOError"
    /\ Len(tried) = 3
    /\ outcome["do_3dhistech_mrxs"] = "ok"

(***************************************************************************)
(* Claims about the format handlers.  before and mbefore are the files as  *)
(* the last handler found them, t the TiffFile of before.                  *)
(***************************************************************************)
FilesUntouched ==
    /\ tiff = before
    /\ ini = mbefore.ini
    /\ index = mbefore.index
    /\ data = mbefore.data

\* C11: whenever a handler raises UnrecognizedFile, the target file and,
\* for MRXS, Slidedat.ini, the index file and the data files are
\* byte-identical to what they were before the handler ran.
C11_UnrecognizedLeavesFiles ==
    hcall.err = "UnrecognizedFile" => FilesUntouched

\* The check of do_aperio_svs passes on the file f read as t.
SvsDetected(t, f) ==
    /\ t.err = ""
    /\ \A desc0 \in {Description(t.tf, f, t.directories[1])} :
          desc0.err = "" /\ startswith(desc0.items, Aperio)

\* The directories of f whose description has a second line that starts
\* with word.
SecondLineDirs(t, f, word) ==
    {k \in 1..Len(t.directories) :
        \A desc \in {Description(t.tf, f, t.directories[k])} :
           desc.err = "" /\ SecondLineStarts(splitlines(desc.items), word)}

First(S) == CHOOSE k \in S : \A j \in S : k <= j

\* Every byte of every strip that directory d lists in the file f0 is zero
\* in the file f.
StripsZeroedIn(tf, f0, d, f) ==
    \A offsets \in {value(tf, f0, EntryOf(d, STRIP_OFFSETS)).items},
       lengths \in {value(tf, f0, EntryOf(d, STRIP_BYTE_COUNTS)).items} :
       \A i \in 1..Min(Len(offsets), Len(lengths)) :
          \A o \in 1..lengths[i] :
             /\ near_pointer(tf, d.out_pointer_offset, offsets[i]) + o
                   <= Len(f)
             /\ f[near_pointer(tf, d.out_pointer_offset, offsets[i]) + o] = 0

\* Directory d of the file f0 has in f the description it had, its Filename
\* field replaced by X and spaces added to the old length.
FilenameCleansed(tf, f0, d, f) ==
    \A old \in {Description(tf, f0, d)}, new \in {Description(tf, f, d)} :
       (old.err = "" /\ Contains(old.items, FilenameWord))
          => /\ new.err = ""
             /\ CleanDesc(old.items).err = ""
             /\ new.items = CleanDesc(old.items).desc
                   \o Spaces(Len(old.items) - Len(CleanDesc(old.items).desc))

\* The file now reads as the chain of t without directory k.
Unlinked(t, k) ==
    \A a \in {TiffFile(tiff)} :
       /\ a.err = ""
       /\ ChainOf(a.directories) = Without(ChainOf(t.directories), k)

\* C12: on an SVS file with a label directory and no macro directory,
\* do_aperio_svs ends without error, the label directory is unlinked and
\* its strips are zero, and every description with a Filename field has
\* the field's value replaced by X.
C12_MacroOptional ==
    \A t \in {TiffFile(before)} :
       (/\ hcall.handler = "do_aperio_svs"
        /\ SvsDetected(t, before)
        /\ SecondLineDirs(t, before, LabelWord) # {}
        /\ SecondLineDirs(t, before, MacroWord) = {})
       => /\ hcall.err = ""
          /\ \A k \in {First(SecondLineDirs(t, before, LabelWord))} :
                /\ Unlinked(t, k)
                /\ StripsZeroedIn(t.tf, before, t.directories[k], tiff)
                /\ \A j \in 1..Len(t.directories) :
                      j # k => FilenameCleansed(t.tf, before,
                                                t.directories[j], tiff)

\* The check of do_hamamatsu_ndpi passes on the file read as t.
NdpiDetected(t) == t.err = "" /\ HasTag(t.directories[1], NDPI_MAGIC)

\* The directories of f do_hamamatsu_ndpi takes for the macro image.
LensDirs(t, f) ==
    {k \in 1..Len(t.directories) :
        /\ HasTag(t.directories[k], NDPI_SOURCELENS)
        /\ \A v \in {value(t.tf, f,
                           EntryOf(t.directories[k], NDPI_SOURCELENS))} :
              v.err = "" /\ v.items # <<>> /\ v.items[1] = 0 - 1}

\* The directories of f do_ventana_tif takes for the label.
LabelImageDirs(t, f) ==
    {k \in 1..Len(t.directories) :
        \A desc \in {Description(t.tf, f, t.directories[k])} :
           /\ desc.err = ""
           /\ splitlines(desc.items) # <<>>
           /\ startswith(splitlines(desc.items)[1], LabelImage)}

\* The last handler had detected its format in the files it was given and
\* nothing in them matches its criterion for the label.
DetectedWithoutLabel ==
    \A t \in {TiffFile(before)} :
       CASE hcall.handler = "do_aperio_svs" ->
               /\ SvsDetected(t, before)
               /\ SecondLineDirs(t, before, LabelWord) = {}
         [] hcall.handler = "do_hamamatsu_ndpi" ->
               NdpiDetected(t) /\ LensDirs(t, before) = {}
         [] hcall.handler = "do_ventana_tif" ->
               /\ t.err = ""
               /\ hcall.tiffinfo = "iScan"
               /\ LabelImageDirs(t, before) = {}
         [] hcall.handler = "do_3dhistech_mrxs" ->
               /\ target.ext = ".mrxs" /\ target.slidedat
               /\ \A m \in {MrxsFile(mbefore.ini)} :
                     /\ m.err = ""
                     /\ ~HasLevel(m.mrxs.level_list, "Scan data layer",
                                  "ScanDataLayer_SlideBarcode")
         [] OTHER -> FALSE

NoLabelError ==
    CASE hcall.handler = "do_aperio_svs" -> "No label detected in SVS file"
      [] hcall.handler = "do_hamamatsu_ndpi" -> "No label in NDPI file"
      [] hcall.handler = "do_ventana_tif" -> "No label in TIF file"
      [] OTHER -> "No label in MRXS file"

\* C13: when the format is detected and no directory or level matches the
\* label criterion, the handler ends with the 'no label' I/O error of its
\* format and the files are untouched, also when a directory of the chain
\* lacks the tag the handler inspects.
C13_NoLabelError ==
    DetectedWithoutLabel => (hcall.err = NoLabelError /\ FilesUntouched)

\* The directories of f whose NDPI_SOURCELENS is a SHORT that holds -1 as a
\* signed number.
SignedShortLensDirs(t, f) ==
    {k \in 1..Len(t.directories) :
        /\ HasTag(t.directories[k], NDPI_SOURCELENS)
        /\ \A e \in {EntryOf(t.directories[k], NDPI_SOURCELENS)} :
              /\ e.type = SHORT
              /\ e.count >= 1
              /\ UnpackItem("h", FileRead(f, ValueLoc(t.tf, e, "H"), 2),
                            t.tf.fmt_prefix) = 0 - 1}

\* C14: on an NDPI file do_hamamatsu_ndpi deletes the first directory whose
\* tag 65421, a signed SHORT, is -1, and only it: the directory is unlinked
\* and every other directory stays in the chain.
C14_DeletesFirstSignedShortLens ==
    \A t \in {TiffFile(before)} :
       (/\ hcall.handler = "do_hamamatsu_ndpi"
        /\ NdpiDetected(t)
        /\ SignedShortLensDirs(t, before) # {})
       => /\ hcall.err = ""
          /\ Unlinked(t, First(SignedShortLensDirs(t, before)))

\* C20: when a handler has returned or raised, every file handle it opened
\* is closed.
C20_HandlesClosed == handles = 0

OverwrittenEntry == EntryOf(fh.directories[call.dir], call.tag)

\* The value of that entry before the call and now.
OldValue == value(fh, before, OverwrittenEntry)
NewValue == value(fh, tiff, OverwrittenEntry)

\* The items of a BYTE or ASCII value as bytes 0x00..0xFF.
Ordinals(its) == [i \in 1..Len(its) |-> its[i] % 256]

\* bs followed by the fill byte up to n bytes.
Filled(bs, fill, n) == [i \in 1..n |-> IF i <= Len(bs) THEN bs[i] ELSE fill]

\* The file parses and the overwritten entry has its tag, type and count.
EntryFieldsKept ==
    \E t \in {TiffFile(tiff)} :
       /\ t.err = ""
       /\ call.dir <= Len(t.directories)
       /\ HasTag(t.directories[call.dir], call.tag)
       /\ \E e \in {EntryOf(t.directories[call.dir], call.tag)} :
             /\ e.type = OverwrittenEntry.type
             /\ e.count = OverwrittenEntry.count

\* C16 as claimed: overwrite_entry of an ASCII or BYTE entry with a payload
\* no longer than the old value succeeds, the value then reads as the
\* payload followed by spaces (ASCII) or zeros (BYTE) up to the old length,
\* an ASCII value still ends with NUL, and the entry's tag, type and count
\* on disk are as before.
C16_OverwriteRoundTrip ==
    (/\ call.op = "overwrite_entry"
     /\ OldValue.err = ""
     /\ Len(call.byte_string) <= Len(OldValue.items))
        => /\ call.err = ""
           /\ NewValue.err = ""
           /\ Ordinals(NewValue.items)
                 = Filled(call.byte_string,
                          IF OverwrittenEntry.type = ASCII THEN 32 ELSE 0,
                          Len(OldValue.items))
           /\ EntryFieldsKept

\* The payload range of the overwritten entry: from the place value() reads
\* it, count bytes.
InPayload(i) ==
    /\ i > OldValue.loc
    /\ i <= OldValue.loc + OverwrittenEntry.count

\* C17 as claimed: overwrite_entry writes the payload at the place value()
\* reads the entry from, inline or out of line, and changes no byte outside
\* the count bytes there, whatever the length of the payload.
C17_OverwriteInPlace ==
    call.op = "overwrite_entry"
        => /\ Len(tiff) = Len(before)
           /\ \A i \in 1..Len(tiff) : InPayload(i) \/ tiff[i] = before[i]
           /\ call.err = ""
                 => \A i \in 1..Min(Len(call.byte_string),
                                     OverwrittenEntry.count) :
                       tiff[OldValue.loc + i] = call.byte_string[i]

(***************************************************************************)
(* Claims about the rewritten Slidedat.ini.                                *)
(***************************************************************************)
\* delete_level has written Slidedat.ini.
IniRewritten ==
    /\ LevelCalled
    /\ (mcall.err = "" \/ ini # mbefore.ini)

\* C18 as claimed: the Slidedat.ini delete_level has written begins with a
\* byte-order mark exactly when the file before the call did, and its lines
\* end with CRLF.
C18_BomKeptAndCrLf ==
    IniRewritten
        => /\ (ini.bom >= 1) <=> (mbefore.ini.bom >= 1)
           /\ ini.eol = "CRLF"

(***************************************************************************)
(* Claims about the order of the writes of delete_level.                   *)
(***************************************************************************)
\* C19: in a delete_level a step writes to a data file only while the
\* index file and Slidedat.ini are as they were when it was called, and to
\* the index file only while Slidedat.ini is; and when the call has got
\* past the payload and not to the index, the index file and Slidedat.ini
\* are as they were and the record still leads to the place of its payload.
C19_DataThenIndexThenIni ==
    /\ [](pc = "index"
            => /\ index = mbefore.index
               /\ ini = mbefore.ini
               /\ mcall.record < Len(MrxsFile(ini).mrxs.level_list)
               /\ get_data_location(index, mrxs.datafiles, mcall.record)
                     = CalledLoc)
    /\ [][/\ data' # data
              => (pc = "zero" /\ index = mbefore.index
                  /\ ini = mbefore.ini)
          /\ index' # index => (pc = "index" /\ ini = mbefore.ini)
          /\ ini' # ini => pc = "ini"]_vars

\* The case of C19: the call has truncated the payload away and has not
\* touched the index.
C19_Witness ==
    /\ pc = "index"
    /\ data # mbefore.data
    /\ mcall.record < Len(mbefore.level_list) - 1

\* The exceptions of the index walk of _get_data_location and of the JPEG
\* SOI check of _zero_record.
ZeroRecordErrors ==
    {"Short read", "ValueError", "IndexError",
     "Unexpected data in nonhier image"}

\* C23: when delete_level raises in self._zero_record(record) with a short
\* read, an _assert_int32 mismatch or a fileno outside the data file list
\* in the index walk, or with 'Unexpected data in nonhier image', the data
\* files, the index file and Slidedat.ini are byte for byte as they were
\* before the call and the levels in memory are unchanged.
C23_FailedZeroRecordLeavesFiles ==
    (pc = RaisedAt("zero") /\ mcall.err \in ZeroRecordErrors)
        => /\ data = mbefore.data
           /\ index = mbefore.index
           /\ ini = mbefore.ini
           /\ mrxs.level_list = mbefore.level_list
           /\ mrxs.dat = MrxsFile(mbefore.ini).mrxs.dat

\* C23 witness: a second delete_level of an open slide has raised in the
\* index walk after the first had changed all three files.
C23_Witness ==
    /\ pc = RaisedAt("zero")
    /\ mcall.err \in {"Short read", "ValueError", "IndexError"}
    /\ mbefore.index # orig.index
    /\ Len(mbefore.level_list) < Len(orig.level_list)

(***************************************************************************)
(* Claims about directory objects kept across a delete.                    *)
(***************************************************************************)
\* Two deletes through the directory objects of the open file have
\* returned.
TwoDeleted ==
    /\ fh.state = "used"
    /\ call.op = "delete"
    /\ call.err = ""
    /\ Cardinality(deleted) = 2

\* The directory the first of the two deletes was called on.
FirstDeleted ==
    CHOOSE i \in 1..Len(fh.directories) :
       /\ i # call.dir
       /\ fh.directories[i].out_pointer_offset \in deleted

\* The chain the file has when it is opened again.
ReopenedChain == ChainOf(TiffFile(tiff).directories)

\* C24: after two deletes of distinct directories through the directory
\* objects of one open TiffFile, the file opened again has neither of the
\* two in its chain, except when the first delete was on the directory
\* just before the second's: then the second stays in the chain.  A file
\* left with no directory in its chain raises 'No directories' when opened.
C24_RetainedDeletes ==
    TwoDeleted =>
       /\ ReopenedChain
             = IF call.dir = FirstDeleted + 1
               THEN Without(chain0, FirstDeleted)
               ELSE Without(Without(chain0, Max(call.dir, FirstDeleted)),
                            Min(call.dir, FirstDeleted))
       /\ TiffFile(tiff).err
             = IF ReopenedChain = <<>> THEN "No directories" ELSE ""

(***************************************************************************)
(* Claims about the command-line driver.                                   *)
(***************************************************************************)
\* C21: without the debug flag _main calls anonymize_slide on the file
\* names in order, whatever the earlier ones ended with, writes one line to
\* stderr for each that raised, and exits with 0 when none raised and with
\* 1 otherwise.
C21_MainAttemptsAll ==
    ~main.debug
        => /\ main.status \in {"none", "running", "exited"}
           /\ \A i \in 1..Len(main.attempted) : main.attempted[i] = i
           /\ main.stderr
                 = SelectSeq([i \in 1..Len(main.attempted) |->
                                <<i, anonymize_slide(main.filenames[i])>>],
                             LAMBDA l : l[2] # "ok")
           /\ main.status = "exited"
                 => /\ Len(main.attempted) = Len(main.filenames)
                    /\ main.exit_code \in {0, 1}
                    /\ main.exit_code = 0
                          <=> \A i \in 1..Len(main.filenames) :
                                 anonymize_slide(main.filenames[i]) = "ok"

\* The case of C21: the first file raised, a later one was redacted, and
\* _main has exited.
C21_Witness ==
    /\ ~main.debug
    /\ main.status = "exited"
    /\ Len(main.filenames) >= 2
    /\ anonymize_slide(main.filenames[1]) # "ok"
    /\ anonymize_slide(main.filenames[Len(main.filenames)]) = "ok"
    /\ main.exit_code = 1

(***************************************************************************)
(* Claims about the dialect of an open TiffFile.                           *)
(***************************************************************************)
\* The file position directory d of the open file was read at.
DirOffset(d) == d.entries[1].start - fmt_size(fh, <<"Y">>)

\* The unsigned number in the n bytes of the file at pos, in the byte order
\* of the open file.
PointerAt(pos, n) ==
    UnpackItem(IF n = 8 THEN "Q" ELSE "I", FileRead(tiff, pos, n),
               fh.fmt_prefix)

\* The directories of the open file were read through pointers of n
\* bytes, from the pointer at first on, and the last pointer is zero.
ChainReadAs(first, n) ==
    /\ fh.directories[1].in_pointer_offset = first
    /\ \A k \in 2..Len(fh.directories) :
          /\ fh.directories[k].in_pointer_offset
                = fh.directories[k - 1].out_pointer_offset
          /\ DirOffset(fh.directories[k])
                = PointerAt(fh.directories[k].in_pointer_offset, n)
    /\ PointerAt(fh.directories[Len(fh.directories)].out_pointer_offset, n)
          = 0

\* C22: an open TiffFile is in NDPI mode exactly when it is classic TIFF
\* and its first directory has the tag NDPI_MAGIC, and never in NDPI and
\* BigTIFF mode at once; the pointer to the first directory of a classic
\* file was read as 32 bits at offset 4, every later pointer of an NDPI
\* file as 64 bits and of a plain classic file as 32 bits; and the dialect
\* stays as it is while the file is open.
C22_NdpiSwitch ==
    /\ [](fh.state # "closed"
            => /\ ~(fh.ndpi /\ fh.bigtiff)
               /\ fh.ndpi <=> (/\ ~fh.bigtiff
                                /\ HasTag(fh.directories[1], NDPI_MAGIC)))
    /\ []((call.op = "open" /\ fh.state = "open")
            => /\ fh.bigtiff <=> PackItem(43, 2, fh.fmt_prefix)
                                    = FileRead(tiff, 2, 2)
               /\ ~fh.bigtiff
                     => /\ DirOffset(fh.directories[1]) = PointerAt(4, 4)
                        /\ ChainReadAs(4, IF fh.ndpi THEN 8 ELSE 4)
               /\ fh.bigtiff
                     => /\ DirOffset(fh.directories[1]) = PointerAt(8, 8)
                        /\ ChainReadAs(8, 8))
    /\ [][(fh.state # "closed" /\ fh'.state # "closed")
             => (fh'.ndpi = fh.ndpi /\ fh'.bigtiff = fh.bigtiff)]_vars

\* The case of C22: an NDPI file of two or more directories has been
\* opened.
C22_Witness ==
    /\ call.op = "open"
    /\ fh.state = "open"
    /\ fh.ndpi
    /\ Len(fh.directories) >= 2

====
